---- MODULE Spec2Model ----
(***************************************************************************)
(* Verification model of the function-tracing layer of optimize-me:        *)
(*   src/src/telemetry/decorators.py            trace_function              *)
(*   src/src/telemetry/auto_instrumentation.py  _wrap_function              *)
(*   src/src/telemetry/config.py                TelemetryConfig             *)
(* A call of a traced function is a small process: it walks through the    *)
(* wrapper's statements (open span, capture arguments, invoke f, capture   *)
(* the return value, set the status, handle an exception, leave the `with` *)
(* block).  Spans are the records the wrapper writes through the tracing   *)
(* API (set_attribute, record_exception, set_status, end).                 *)
(*                                                                         *)
(* Further components, each with a specification of its own:               *)
(*   SpecCapture  the capture blocks of trace_function.wrapper             *)
(*   SpecCache    src/src/dsa/caching_memoization.py, algorithms/caching.py*)
(*   SpecAuto     auto_instrument_modules / _package / _current_package    *)
(*   SpecGraph    src/src/dsa/nodes.py find_node_clusters,                 *)
(*                find_cycle_vertices, find_strongly_connected_components  *)
(*   SpecExamples setup_telemetry, retry_with_backoff, the asyncio         *)
(*                examples of async_examples/concurrency.py, matrix_sum    *)
(*                and Stack: a driver runs one of them                     *)
(***************************************************************************)
EXTENDS Integers, Sequences, FiniteSets, TLC

\* enabled  TelemetryConfig.enabled
\* deco     what each function's name is bound to: "none" (module not yet
\*          imported), "raw" (f itself) or "wrapper"
\* calls    the invocations, one record per call slot
\* spans    the spans started so far, in order of creation
VARIABLES enabled, deco, calls, spans

\* capt     the last run of the argument / return capture code
\* tbc      a function decorated with time_based_cache: cache, clock, calls
\* ai       auto-instrumentation: _instrumented_modules and the modules'
\*          name bindings
\* gr       the last call of a graph function and what it returned
VARIABLES capt, tbc, ai, gr

\* prog     the example the driver is running: "none" before it picks one
\* tel      the tracing backend as setup_telemetry sees and changes it
\* rt       one call of retry_with_backoff
\* rc       race_condition_example: the counter, the tasks, the ready queue
\* sem      inefficient_semaphore_usage: the semaphore and its tasks
\* mx       the call of matrix_sum and what it returned
\* stk      a Stack object and its last operation
VARIABLES prog, tel, rt, rc, sem, mx, stk

vars == <<enabled, deco, calls, spans, capt, tbc, ai, gr,
          prog, tel, rt, rc, sem, mx, stk>>

----------------------------------------------------------------------------
(* Bounds of the model *)

MaxCalls == 2   \* invocations (call slots), which may overlap
MaxPos == 1     \* positional arguments passed in one call

Calls == 1..MaxCalls

----------------------------------------------------------------------------
(* Python values, strings and exceptions *)

\* An int n, a str of n characters, an object whose __str__ raises, None,
\* and a coroutine object (what calling an `async def` returns).
IntVal(n) == [ty |-> "int", n |-> n]
StrVal(n) == [ty |-> "str", n |-> n]
Obj == [ty |-> "obj", n |-> 0]
None == [ty |-> "none", n |-> 0]
Coroutine == [ty |-> "coro", n |-> 0]

Digits == <<"0", "1", "2", "3", "4", "5", "6", "7", "8", "9">>

RECURSIVE IntStr(_)
IntStr(n) ==
    IF n < 10 THEN Digits[n + 1]
    ELSE IntStr(n \div 10) \o Digits[(n % 10) + 1]

RECURSIVE Repeat(_, _)
Repeat(ch, n) ==
    IF n = 0 THEN ""
    ELSE LET half == Repeat(ch, n \div 2)
         IN IF n % 2 = 0 THEN half \o half ELSE half \o half \o ch

\* str(value): raises for the object whose __str__ raises (StrOk is false)
StrOk(v) == v.ty # "obj"

Str(v) ==
    CASE v.ty = "int" -> IntStr(v.n)
      [] v.ty = "str" -> Repeat("x", v.n)
      [] v.ty = "none" -> "None"
      [] OTHER -> "<coroutine object>"

MaxAttrLen == 250

\* A cut that already applies at the limit:  if len(s) >= 250
TruncateAtLimit(s) ==
    IF Len(s) >= MaxAttrLen THEN SubSeq(s, 1, MaxAttrLen) \o "..."
    ELSE s

\* if len(s) > 250: s = s[:250] + "..."
Truncate(s) ==
    IF Len(s) > MaxAttrLen THEN SubSeq(s, 1, MaxAttrLen) \o "..."
    ELSE s

Exc(type, msg) == [type |-> type, msg |-> msg]
NoExc == Exc("", "")
ValueErr == Exc("ValueError", "x")
CallTypeErr == Exc("TypeError", "f() missing 1 required positional argument: 'a'")
BindTypeErr == Exc("TypeError", "missing a required argument: 'a'")
StrErr == Exc("RuntimeError", "__str__ failed")
Cancelled == Exc("CancelledError", "")

\* `except Exception` catches everything but the BaseException-only classes
\* (asyncio.CancelledError, KeyboardInterrupt, SystemExit, GeneratorExit).
IsException(e) == e.type # "CancelledError"

----------------------------------------------------------------------------
(* The traced functions *)

Funcs == {"f1", "f2", "f3", "f4"}

\* f1: @trace_function(span_name=..., capture_args=[...], capture_return=True)
\* f2: @trace_function on an async def, capture_return=True
\* f3, f4: a sync and an async function wrapped by _wrap_function
FuncDef(f) ==
    CASE f = "f1" -> [kind |-> "trace", async |-> FALSE, module |-> "m", name |-> "f1",
                      span_name |-> "custom", capture_args |-> <<"a", "z", "b">>,
                      capture_return |-> TRUE]
      [] f = "f2" -> [kind |-> "trace", async |-> TRUE, module |-> "m", name |-> "f2",
                      span_name |-> "", capture_args |-> <<>>,
                      capture_return |-> TRUE]
      [] f = "f3" -> [kind |-> "auto", async |-> FALSE, module |-> "n", name |-> "f3",
                      span_name |-> "", capture_args |-> <<>>,
                      capture_return |-> FALSE]
      [] OTHER    -> [kind |-> "auto", async |-> TRUE, module |-> "n", name |-> "f4",
                      span_name |-> "", capture_args |-> <<>>,
                      capture_return |-> FALSE]

\* Every function is declared  def f(a, b=2)
Params == <<"a", "b">>
Defaults == [p \in {"b"} |-> IntVal(2)]

ParamSet == {Params[i] : i \in 1..Len(Params)}

ArgVals == {IntVal(1), Obj}
RetVals == {IntVal(3), Obj}

EmptyKw == [p \in {} |-> None]
KwChoices == {EmptyKw, [p \in {"b"} |-> IntVal(1)]}

PosChoices == UNION {[1..n -> ArgVals] : n \in 0..MaxPos}

ArgLists == {[pos |-> p, kw |-> k] : p \in PosChoices, k \in KwChoices}

NoArgs == [pos |-> <<None>>, kw |-> EmptyKw]

\* inspect.Signature.bind: positionals fill the parameters in order, keywords
\* must name a parameter not yet filled, every parameter without a default
\* must be filled.  The interpreter applies the same rule when f is called.
PosNames(args) == {Params[i] : i \in 1..Len(args.pos)} \cap ParamSet

BindOk(args) ==
    /\ Len(args.pos) <= Len(Params)
    /\ DOMAIN args.kw \subseteq ParamSet
    /\ DOMAIN args.kw \cap PosNames(args) = {}
    /\ \A p \in ParamSet :
           p \in PosNames(args) \/ p \in DOMAIN args.kw \/ p \in DOMAIN Defaults

ParamIndex(p) == CHOOSE i \in 1..Len(Params) : Params[i] = p

\* bound = sig.bind(*args, **kwargs); bound.apply_defaults(); bound.arguments
BoundArguments(args) ==
    [p \in ParamSet |->
        IF p \in PosNames(args) THEN args.pos[ParamIndex(p)]
        ELSE IF p \in DOMAIN args.kw THEN args.kw[p]
        ELSE Defaults[p]]

----------------------------------------------------------------------------
(* Spans: what the wrapper writes through the tracing API.  The API calls  *)
(* themselves do not raise; the instrumentation steps that can raise are   *)
(* sig.bind and str().                                                     *)

NoAttrs == [k \in {} |-> ""]

\* tracer.start_as_current_span(name): a new span, open, status unset
NewSpan(name, owner) ==
    [name |-> name, owner |-> owner, attrs |-> NoAttrs, status |-> "UNSET",
     description |-> "", nstatus |-> 0, events |-> <<>>, ended |-> 0]

\* span.set_attribute(key, value)
set_attribute(span, key, value) == [span EXCEPT !.attrs = (key :> value) @@ @]

\* span.set_status(Status(code, description))
set_status(span, code, description) ==
    [span EXCEPT !.status = code, !.description = description, !.nstatus = @ + 1]

\* span.record_exception(e)
record_exception(span, e) == [span EXCEPT !.events = Append(@, e)]

\* leaving the `with` block ends the span
end_span(span) == [span EXCEPT !.ended = @ + 1]

\* name = span_name or f"{f.__module__}.{f.__name__}"   (trace_function)
\* full_name = f"{module_name}.{func_name}"             (_wrap_function)
SpanName(f) ==
    LET d == FuncDef(f) IN
    IF d.kind = "trace" /\ d.span_name # "" THEN d.span_name
    ELSE d.module \o "." \o d.name

\* ",".join(param_names)
RECURSIVE Join(_, _)
Join(names, sep) ==
    IF names = <<>> THEN ""
    ELSE IF Len(names) = 1 THEN names[1]
    ELSE names[1] \o sep \o Join(Tail(names), sep)

\* A loop without the test `arg_name in bound.arguments`, reading the value
\* with bound.arguments.get(arg_name)
RECURSIVE CaptureLoopUnchecked(_, _, _)
CaptureLoopUnchecked(names, bound, span) ==
    IF names = <<>> THEN [ok |-> TRUE, span |-> span]
    ELSE LET arg_name == Head(names)
             value == IF arg_name \in DOMAIN bound THEN bound[arg_name] ELSE None
         IN
         IF ~StrOk(value)
         THEN [ok |-> FALSE, span |-> span]
         ELSE CaptureLoopUnchecked(Tail(names), bound,
                  set_attribute(span, "function." \o arg_name, Truncate(Str(value))))

\* The loop over capture_args: every requested name that is bound gets the
\* attribute function.<name>; str(value) raising leaves the loop at once.
RECURSIVE CaptureLoop(_, _, _)
CaptureLoop(names, bound, span) ==
    IF names = <<>> THEN [ok |-> TRUE, span |-> span]
    ELSE LET arg_name == Head(names) IN
         IF arg_name \notin DOMAIN bound
         THEN CaptureLoop(Tail(names), bound, span)
         ELSE IF ~StrOk(bound[arg_name])
         THEN [ok |-> FALSE, span |-> span]
         ELSE CaptureLoop(Tail(names), bound,
                  set_attribute(span, "function." \o arg_name,
                                Truncate(Str(bound[arg_name]))))

----------------------------------------------------------------------------
(* Outcomes and call records *)

Returned(v) == [kind |-> "return", val |-> v, exc |-> NoExc]
Raised(e) == [kind |-> "raise", val |-> None, exc |-> e]
NoOutcome == [kind |-> "none", val |-> None, exc |-> NoExc]

\* What the body of a traced function can do: return a value, raise an
\* ordinary exception, or be cancelled.
FOutcomes == {Returned(v) : v \in RetVals} \cup {Raised(ValueErr), Raised(Cancelled)}

\* pc      where the call is
\* via     the callable the caller invoked: f itself ("raw") or a wrapper
\* span    index of the span this invocation opened (0: none)
\* fargs   the arguments f was invoked with,  nexec  how often f was invoked
\* result  the wrapper's local `result`,  exc  the exception in flight
\* fout    how f's execution ended,  res  what the caller observed
\* ifail   the instrumentation step that raised
IdleCall ==
    [pc |-> "idle", fn |-> "", args |-> NoArgs, via |-> "", span |-> 0,
     fargs |-> NoArgs, nexec |-> 0, result |-> None, exc |-> NoExc,
     fout |-> NoOutcome, res |-> NoOutcome, ifail |-> "none"]

TelemetryConfigEnabled == {TRUE, FALSE}

\* Nothing captured yet: a fresh span and no arguments
NoCapture ==
    [phase |-> "none", names |-> <<>>, args |-> NoArgs, ret |-> None, ok |-> TRUE,
     span |-> NewSpan("capture", 0)]

\* cache = {} of a function not yet decorated; the clock at 0
EmptyCache == [k \in {} |-> [result |-> None, timestamp |-> 0]]

NewCache ==
    [variant |-> "none", expiry |-> 0, cache |-> EmptyCache, now |-> 0, nfunc |-> 0,
     log |-> <<>>]

\* _instrumented_modules = set(), no module imported, no call made
NoBindings == [b \in {} |-> [fn |-> "", mod |-> "", depth |-> 0]]

NotInstrumented ==
    [instrumented |-> {}, imported |-> {}, bind |-> NoBindings, n |-> 0,
     last |-> [op |-> "none", names |-> <<>>, include_private |-> FALSE,
               recursive |-> FALSE, exclude |-> <<>>, ret |-> 0]]

\* No graph function called yet
NoGraphCall ==
    [op |-> "none", nodes |-> <<>>, edges |-> <<>>, raised |-> "", out |-> <<>>]

Init ==
    /\ enabled \in TelemetryConfigEnabled
    /\ deco = [f \in Funcs |-> IF FuncDef(f).kind = "trace" THEN "none" ELSE "raw"]
    /\ calls = [c \in Calls |-> IdleCall]
    /\ spans = <<>>
    /\ capt = NoCapture
    /\ tbc = NewCache
    /\ ai = NotInstrumented
    /\ gr = NoGraphCall
    /\ prog = "none"
    /\ tel = [global |-> 0, sdk |-> <<>>, instrumented |-> {}, n |-> 0,
              last |-> [enabled |-> "None", exporter_type |-> "None",
                        use_auto_instrumentation |-> FALSE]]
    /\ rt = [max_retries |-> 0, attempt |-> 0, log |-> <<>>, pc |-> "none",
             out |-> NoOutcome]
    /\ rc = [counter |-> 0, tasks |-> <<>>, ready |-> <<>>]
    /\ sem = [value |-> 0, waiters |-> <<>>, tasks |-> <<>>]
    /\ mx = [matrix |-> <<>>, out |-> <<>>]
    /\ stk = [stack |-> <<>>, op |-> "none", ret |-> None, n |-> 0]

\* The components below do not read TelemetryConfig: one value is enough
InitComponents == Init /\ enabled

----------------------------------------------------------------------------
(* Configuration and wrapping *)

\* TelemetryConfig.enabled is a plain class attribute; tests assign to it.
SetEnabled(b) ==
    /\ b # enabled
    /\ enabled' = b
    /\ UNCHANGED <<deco, calls, spans, capt, tbc, ai, gr, prog, tel, rt, rc, sem, mx, stk>>

\* A decorator that wraps whatever TelemetryConfig.enabled says
decorator_always_wraps(f) == "wrapper"

\* trace_function.decorator: f itself when tracing is disabled, else wrapper
decorator(f) == IF ~enabled THEN "raw" ELSE "wrapper"

\* Importing the module that defines the decorated functions applies the
\* decorator to each of them.
Decorate ==
    /\ \E f \in Funcs : deco[f] = "none"
    /\ deco' = [f \in Funcs |-> IF deco[f] = "none" THEN decorator(f) ELSE deco[f]]
    /\ UNCHANGED <<enabled, calls, spans, capt, tbc, ai, gr, prog, tel, rt, rc, sem, mx, stk>>

\* _wrap_function always returns the wrapper
_wrap_function(f) == "wrapper"

\* _instrument_module replaces every function of the module by its wrapper
InstrumentModule ==
    /\ \E f \in Funcs : FuncDef(f).kind = "auto" /\ deco[f] = "raw"
    /\ deco' = [f \in Funcs |->
                  IF FuncDef(f).kind = "auto" /\ deco[f] = "raw"
                  THEN _wrap_function(f) ELSE deco[f]]
    /\ UNCHANGED <<enabled, calls, spans, capt, tbc, ai, gr, prog, tel, rt, rc, sem, mx, stk>>

----------------------------------------------------------------------------
(* One invocation *)

SetCall(c, r) == calls' = [calls EXCEPT ![c] = r]

\* A wrapper that writes to whichever span was started last instead of the
\* span its own `with` statement bound
SetSpanCurrent(i, s) == spans' = [spans EXCEPT ![Len(spans)] = s]

\* The wrapper writes through `span`, the object its own `with` bound
SetSpan(i, s) == spans' = [spans EXCEPT ![i] = s]

\* The caller invokes the callable bound to f's name.  The wrapper opens the
\* span on entry (with tracer.start_as_current_span(name) as span).
Call(c, f, args) ==
    /\ calls[c].pc = "idle"
    /\ \A b \in Calls : b < c => calls[b].pc # "idle"
    /\ deco[f] # "none"
    /\ IF deco[f] = "raw"
       THEN /\ SetCall(c, [calls[c] EXCEPT !.pc = "direct", !.fn = f, !.args = args,
                                           !.via = "raw"])
            /\ UNCHANGED spans
       ELSE /\ spans' = Append(spans, NewSpan(SpanName(f), c))
            /\ SetCall(c, [calls[c] EXCEPT !.pc = "try", !.fn = f, !.args = args,
                                           !.via = "wrapper", !.span = Len(spans) + 1])
    /\ UNCHANGED <<enabled, deco, capt, tbc, ai, gr, prog, tel, rt, rc, sem, mx, stk>>

\* trace_function.wrapper, `if capture_args:` block
CaptureArgs(c) ==
    LET r == calls[c]
        d == FuncDef(r.fn)
    IN
    /\ r.pc = "try"
    /\ d.kind = "trace"
    /\ IF d.capture_args = <<>>
       THEN /\ SetCall(c, [r EXCEPT !.pc = "invoke"])
            /\ UNCHANGED spans
       ELSE IF ~BindOk(r.args)
       THEN /\ SetCall(c, [r EXCEPT !.pc = "except", !.exc = BindTypeErr,
                                    !.ifail = "bind"])
            /\ UNCHANGED spans
       ELSE LET cap == CaptureLoop(d.capture_args, BoundArguments(r.args), spans[r.span])
            IN /\ SetSpan(r.span, cap.span)
               /\ IF cap.ok
                  THEN SetCall(c, [r EXCEPT !.pc = "invoke"])
                  ELSE SetCall(c, [r EXCEPT !.pc = "except", !.exc = StrErr,
                                            !.ifail = "str_arg"])
    /\ UNCHANGED <<enabled, deco, capt, tbc, ai, gr, prog, tel, rt, rc, sem, mx, stk>>

\* _wrap_function.wrapper: code.function, code.namespace and the parameter
\* names (the inner try/except swallows a failure of inspect.signature)
SetCodeAttrs(c) ==
    LET r == calls[c]
        d == FuncDef(r.fn)
        s1 == set_attribute(spans[r.span], "code.function", d.name)
        s2 == set_attribute(s1, "code.namespace", d.module)
        s3 == set_attribute(s2, "code.function.parameters", Join(Params, ","))
    IN
    /\ r.pc = "try"
    /\ d.kind = "auto"
    /\ SetSpan(r.span, s3)
    /\ SetCall(c, [r EXCEPT !.pc = "invoke"])
    /\ UNCHANGED <<enabled, deco, capt, tbc, ai, gr, prog, tel, rt, rc, sem, mx, stk>>

\* A memoising wrapper: a result computed earlier for the same function and
\* arguments is returned without running f again
InvokeCached(c) ==
    LET r == calls[c]
        d == FuncDef(r.fn)
        r1 == [r EXCEPT !.fargs = r.args, !.nexec = @ + 1]
        hits == {b \in Calls : /\ b # c
                               /\ calls[b].fn = r.fn
                               /\ calls[b].args = r.args
                               /\ calls[b].pc = "done"
                               /\ calls[b].fout.kind = "return"}
    IN
    /\ r.pc = "invoke"
    /\ IF hits # {}
       THEN \E b \in hits :
              SetCall(c, [r EXCEPT !.pc = "post", !.result = calls[b].fout.val,
                                   !.fout = calls[b].fout])
       ELSE IF ~BindOk(r.args)
       THEN SetCall(c, [r1 EXCEPT !.pc = "except", !.exc = CallTypeErr,
                                  !.fout = Raised(CallTypeErr)])
       ELSE IF d.async
       THEN SetCall(c, [r1 EXCEPT !.pc = "post", !.result = Coroutine])
       ELSE \E o \in FOutcomes :
              IF o.kind = "return"
              THEN SetCall(c, [r1 EXCEPT !.pc = "post", !.result = o.val, !.fout = o])
              ELSE SetCall(c, [r1 EXCEPT !.pc = IF IsException(o.exc) THEN "except"
                                                ELSE "exit",
                                         !.exc = o.exc, !.fout = o])
    /\ UNCHANGED <<enabled, deco, spans, capt, tbc, ai, gr, prog, tel, rt, rc, sem, mx, stk>>

\* result = f(*args, **kwargs): f gets the caller's arguments.  Calling an
\* async def only creates the coroutine object; a call that does not fit the
\* signature raises TypeError; BaseException passes `except Exception`.
Invoke(c) ==
    LET r == calls[c]
        d == FuncDef(r.fn)
        r1 == [r EXCEPT !.fargs = r.args, !.nexec = @ + 1]
    IN
    /\ r.pc = "invoke"
    /\ IF ~BindOk(r.args)
       THEN SetCall(c, [r1 EXCEPT !.pc = "except", !.exc = CallTypeErr,
                                  !.fout = Raised(CallTypeErr)])
       ELSE IF d.async
       THEN SetCall(c, [r1 EXCEPT !.pc = "post", !.result = Coroutine])
       ELSE \E o \in FOutcomes :
              IF o.kind = "return"
              THEN SetCall(c, [r1 EXCEPT !.pc = "post", !.result = o.val, !.fout = o])
              ELSE SetCall(c, [r1 EXCEPT !.pc = IF IsException(o.exc) THEN "except"
                                                ELSE "exit",
                                         !.exc = o.exc, !.fout = o])
    /\ UNCHANGED <<enabled, deco, spans, capt, tbc, ai, gr, prog, tel, rt, rc, sem, mx, stk>>

\* After f returned: the capture_return block, then set_status(OK)
Complete(c) ==
    LET r == calls[c]
        d == FuncDef(r.fn)
        s == spans[r.span]
    IN
    /\ r.pc = "post"
    /\ IF d.kind = "trace" /\ d.capture_return
       THEN IF ~StrOk(r.result)
            THEN /\ SetCall(c, [r EXCEPT !.pc = "except", !.exc = StrErr,
                                         !.ifail = "str_ret"])
                 /\ UNCHANGED spans
            ELSE /\ SetSpan(r.span,
                        set_status(set_attribute(s, "function.return",
                                                 Truncate(Str(r.result))), "OK", ""))
                 /\ SetCall(c, [r EXCEPT !.pc = "exit"])
       ELSE /\ SetSpan(r.span, set_status(s, "OK", ""))
            /\ SetCall(c, [r EXCEPT !.pc = "exit"])
    /\ UNCHANGED <<enabled, deco, capt, tbc, ai, gr, prog, tel, rt, rc, sem, mx, stk>>

\* A handler that records the exception but does not re-raise it
HandleExceptionSwallow(c) ==
    LET r == calls[c]
        s == spans[r.span]
    IN
    /\ r.pc = "except"
    /\ SetSpan(r.span, set_status(record_exception(s, r.exc), "ERROR", r.exc.msg))
    /\ SetCall(c, [r EXCEPT !.pc = "exit", !.exc = NoExc])
    /\ UNCHANGED <<enabled, deco, capt, tbc, ai, gr, prog, tel, rt, rc, sem, mx, stk>>

\* except Exception as e: record_exception, set_status(ERROR, str(e)), raise
HandleException(c) ==
    LET r == calls[c]
        s == spans[r.span]
    IN
    /\ r.pc = "except"
    /\ SetSpan(r.span, set_status(record_exception(s, r.exc), "ERROR", r.exc.msg))
    /\ SetCall(c, [r EXCEPT !.pc = "exit"])
    /\ UNCHANGED <<enabled, deco, capt, tbc, ai, gr, prog, tel, rt, rc, sem, mx, stk>>

\* A span ended by hand after the body, without try/finally: an exception
\* in flight skips span.end()
ExitSpanNoFinally(c) ==
    LET r == calls[c]
    IN
    /\ r.pc = "exit"
    /\ IF r.exc # NoExc
       THEN /\ SetCall(c, [r EXCEPT !.pc = "done", !.res = Raised(r.exc)])
            /\ UNCHANGED spans
       ELSE /\ SetSpan(r.span, end_span(spans[r.span]))
            /\ IF r.result = Coroutine
               THEN SetCall(c, [r EXCEPT !.pc = "awaiting"])
               ELSE SetCall(c, [r EXCEPT !.pc = "done", !.res = Returned(r.result)])
    /\ UNCHANGED <<enabled, deco, capt, tbc, ai, gr, prog, tel, rt, rc, sem, mx, stk>>

\* Leaving the `with` block: the span ends, then the wrapper returns `result`
\* or the exception in flight propagates to the caller.
ExitSpan(c) ==
    LET r == calls[c]
    IN
    /\ r.pc = "exit"
    /\ SetSpan(r.span, end_span(spans[r.span]))
    /\ IF r.exc # NoExc
       THEN SetCall(c, [r EXCEPT !.pc = "done", !.res = Raised(r.exc)])
       ELSE IF r.result = Coroutine
       THEN SetCall(c, [r EXCEPT !.pc = "awaiting"])
       ELSE SetCall(c, [r EXCEPT !.pc = "done", !.res = Returned(r.result)])
    /\ UNCHANGED <<enabled, deco, capt, tbc, ai, gr, prog, tel, rt, rc, sem, mx, stk>>

\* The undecorated f called directly
DirectCall(c) ==
    LET r == calls[c]
        d == FuncDef(r.fn)
        r1 == [r EXCEPT !.fargs = r.args, !.nexec = @ + 1]
    IN
    /\ r.pc = "direct"
    /\ IF ~BindOk(r.args)
       THEN SetCall(c, [r1 EXCEPT !.pc = "done", !.fout = Raised(CallTypeErr),
                                  !.res = Raised(CallTypeErr)])
       ELSE IF d.async
       THEN SetCall(c, [r1 EXCEPT !.pc = "awaiting", !.result = Coroutine])
       ELSE \E o \in FOutcomes :
              SetCall(c, [r1 EXCEPT !.pc = "done", !.fout = o, !.res = o])
    /\ UNCHANGED <<enabled, deco, spans, capt, tbc, ai, gr, prog, tel, rt, rc, sem, mx, stk>>

\* The caller awaits the coroutine: only now does the body of f run
Await(c) ==
    LET r == calls[c]
    IN
    /\ r.pc = "awaiting"
    /\ \E o \in FOutcomes :
          SetCall(c, [r EXCEPT !.pc = "done", !.fout = o, !.res = o])
    /\ UNCHANGED <<enabled, deco, spans, capt, tbc, ai, gr, prog, tel, rt, rc, sem, mx, stk>>

Next ==
    \/ \E b \in BOOLEAN : SetEnabled(b)
    \/ Decorate
    \/ InstrumentModule
    \/ \E c \in Calls, f \in Funcs, args \in ArgLists : Call(c, f, args)
    \/ \E c \in Calls : CaptureArgs(c)
    \/ \E c \in Calls : SetCodeAttrs(c)
    \/ \E c \in Calls : Invoke(c)
    \/ \E c \in Calls : Complete(c)
    \/ \E c \in Calls : HandleException(c)
    \/ \E c \in Calls : ExitSpan(c)
    \/ \E c \in Calls : DirectCall(c)
    \/ \E c \in Calls : Await(c)

Spec == Init /\ [][Next]_vars

----------------------------------------------------------------------------
(* The capture code of trace_function.wrapper on its own: any capture_args  *)
(* list, any call, long and short values.                                   *)

MaxCaptPos == 2     \* positional arguments of a call
MaxCaptNames == 2   \* entries of capture_args

CaptNameSet == {"a", "b", "z"}

CaptNames == UNION {[1..n -> CaptNameSet] : n \in 0..MaxCaptNames}

\* 5, "xxx", a str of exactly 250 and of 251 characters, and an object whose
\* __str__ raises
CaptVals == {IntVal(5), StrVal(3), StrVal(MaxAttrLen), StrVal(MaxAttrLen + 1), Obj}

CaptKwVals == {IntVal(5), StrVal(MaxAttrLen + 1)}

CaptArgLists ==
    {[pos |-> p, kw |-> k] :
        p \in UNION {[1..n -> CaptVals] : n \in 0..MaxCaptPos},
        k \in UNION {[d -> CaptKwVals] : d \in SUBSET ParamSet}}

\* if capture_return: span.set_attribute("function.return", ...)
CaptureReturn(result, span) ==
    IF ~StrOk(result) THEN [ok |-> FALSE, span |-> span]
    ELSE [ok |-> TRUE,
          span |-> set_attribute(span, "function.return", Truncate(Str(result)))]

\* The `if capture_args:` block run once on a fresh span; sig.bind raising
\* leaves the span without attributes
RunCaptureArgs ==
    /\ capt.phase = "none"
    /\ \E names \in CaptNames, args \in CaptArgLists :
          capt' = IF ~BindOk(args)
                  THEN [NoCapture EXCEPT !.phase = "args", !.names = names,
                                         !.args = args, !.ok = FALSE]
                  ELSE LET cap == CaptureLoop(names, BoundArguments(args),
                                              NoCapture.span)
                       IN [NoCapture EXCEPT !.phase = "args", !.names = names,
                                            !.args = args, !.ok = cap.ok,
                                            !.span = cap.span]
    /\ UNCHANGED <<enabled, deco, calls, spans, tbc, ai, gr, prog, tel, rt, rc, sem, mx, stk>>

\* The `if capture_return:` block run on a fresh span
RunCaptureReturn ==
    /\ capt.phase = "none"
    /\ \E result \in CaptVals :
          LET cap == CaptureReturn(result, NoCapture.span)
          IN capt' = [NoCapture EXCEPT !.phase = "ret", !.ret = result, !.ok = cap.ok,
                                       !.span = cap.span]
    /\ UNCHANGED <<enabled, deco, calls, spans, tbc, ai, gr, prog, tel, rt, rc, sem, mx, stk>>

CaptureNext ==
    \/ RunCaptureArgs
    \/ RunCaptureReturn

SpecCapture == InitComponents /\ [][CaptureNext]_vars

----------------------------------------------------------------------------
(* time_based_cache: src/dsa/caching_memoization.py builds a string key,    *)
(* src/algorithms/caching.py a tuple key (make_key); the rest of the two    *)
(* wrappers is the same.                                                    *)

MaxCacheCalls == 2   \* calls of the cached function
MaxCachePos == 1     \* positional arguments of a call
MaxTime == 3         \* the clock stops here

CacheVariants == {"dsa", "alg"}

\* expiry_seconds
Expiries == {0, 1, 2}

\* The cached function is declared  def func(x, y="default")
CacheParams == <<"x", "y">>
CacheRequired == {"x"}

CacheVals == {IntVal(1), IntVal(2)}

\* Keyword arguments in the order the call wrote them
CacheKwChoices ==
    {<<>>} \cup {<<<<k, v>>>> : k \in {"x", "y"}, v \in CacheVals}
           \cup {<<<<k[1], v1>>, <<k[2], v2>>>> :
                    k \in {<<"x", "y">>, <<"y", "x">>},
                    v1 \in CacheVals, v2 \in CacheVals}

CacheArgLists ==
    {[pos |-> p, kw |-> k] :
        p \in UNION {[1..n -> CacheVals] : n \in 0..MaxCachePos},
        k \in CacheKwChoices}

\* repr(arg)
Repr(v) ==
    IF v.ty = "int" THEN IntStr(v.n) ELSE "'" \o Repeat("x", v.n) \o "'"

\* The order of str on the keyword names in use
NameRank(k) == CHOOSE i \in 1..Len(CacheParams) : CacheParams[i] = k

RECURSIVE InsertItem(_, _)
InsertItem(item, items) ==
    IF items = <<>> THEN <<item>>
    ELSE IF NameRank(item[1]) <= NameRank(Head(items)[1]) THEN <<item>> \o items
    ELSE <<Head(items)>> \o InsertItem(item, Tail(items))

\* kwargs.items() as they come, without sorting
RECURSIVE unsorted_items(_)
unsorted_items(kwargs) ==
    IF kwargs = <<>> THEN <<>>
    ELSE <<Head(kwargs)>> \o unsorted_items(Tail(kwargs))

\* sorted(kwargs.items())
RECURSIVE sorted_items(_)
sorted_items(kwargs) ==
    IF kwargs = <<>> THEN <<>>
    ELSE InsertItem(Head(kwargs), sorted_items(Tail(kwargs)))

\* caching.py make_key: (args, tuple(sorted(kwargs.items()))), or
\* (args, None) for a call without keyword arguments
make_key(args) ==
    IF args.kw # <<>>
    THEN [args |-> args.pos, none |-> FALSE, items |-> sorted_items(args.kw)]
    ELSE [args |-> args.pos, none |-> TRUE, items |-> <<>>]

\* [repr(arg) for arg in args]
RECURSIVE ReprParts(_)
ReprParts(pos) ==
    IF pos = <<>> THEN <<>> ELSE <<Repr(Head(pos))>> \o ReprParts(Tail(pos))

\* f"{k}:{repr(v)}" for k, v in sorted(kwargs.items())
RECURSIVE KwParts(_)
KwParts(items) ==
    IF items = <<>> THEN <<>>
    ELSE <<Head(items)[1] \o ":" \o Repr(Head(items)[2])>> \o KwParts(Tail(items))

\* caching_memoization.py: key = ":".join(key_parts)
string_key(args) == Join(ReprParts(args.pos) \o KwParts(sorted_items(args.kw)), ":")

CacheKey(variant, args) == IF variant = "dsa" THEN string_key(args) ELSE make_key(args)

\* func(*args, **kwargs) fits def func(x, y="default")
FuncBindOk(args) ==
    LET named == {args.kw[i][1] : i \in 1..Len(args.kw)}
        filled == {CacheParams[i] : i \in 1..Len(args.pos)}
    IN /\ Len(args.pos) <= Len(CacheParams)
       /\ named \cap filled = {}
       /\ CacheRequired \subseteq named \cup filled

\* An entry that also counts as fresh at the moment it reaches expiry_seconds
FreshInclusive(entry, current_time, expiry_seconds) ==
    current_time - entry.timestamp <= expiry_seconds

\* if current_time - timestamp < expiry_seconds: return result
Fresh(entry, current_time, expiry_seconds) ==
    current_time - entry.timestamp < expiry_seconds

\* @time_based_cache(expiry_seconds) applied to func: a new, empty cache
DecorateCache(variant, expiry_seconds) ==
    /\ tbc.variant = "none"
    /\ tbc' = [tbc EXCEPT !.variant = variant, !.expiry = expiry_seconds]
    /\ UNCHANGED <<enabled, deco, calls, spans, capt, ai, gr, prog, tel, rt, rc, sem, mx, stk>>

\* time.time() moves on
Tick ==
    /\ tbc.variant # "none"
    /\ tbc.now < MaxTime
    /\ tbc' = [tbc EXCEPT !.now = @ + 1]
    /\ UNCHANGED <<enabled, deco, calls, spans, capt, ai, gr, prog, tel, rt, rc, sem, mx, stk>>

\* One call of the wrapper.  func returns a new value on every invocation
\* (the number of the invocation); a call that does not fit func's
\* signature raises TypeError out of func(*args, **kwargs) and stores
\* nothing.
CacheCall(args) ==
    LET key == CacheKey(tbc.variant, args)
        current_time == tbc.now
        hit == /\ key \in DOMAIN tbc.cache
               /\ Fresh(tbc.cache[key], current_time, tbc.expiry)
        result == IntVal(tbc.nfunc + 1)
        entry(out, invoked) ==
            [args |-> args, key |-> key, t |-> current_time, invoked |-> invoked,
             out |-> out]
    IN
    /\ tbc.variant # "none"
    /\ Len(tbc.log) < MaxCacheCalls
    /\ IF hit
       THEN tbc' = [tbc EXCEPT
                      !.log = Append(@, entry(Returned(tbc.cache[key].result), FALSE))]
       ELSE IF ~FuncBindOk(args)
       THEN tbc' = [tbc EXCEPT !.nfunc = @ + 1,
                               !.log = Append(@, entry(Raised(CallTypeErr), TRUE))]
       ELSE tbc' = [tbc EXCEPT
                      !.nfunc = @ + 1,
                      !.cache = (key :> [result |-> result, timestamp |-> current_time])
                                   @@ @,
                      !.log = Append(@, entry(Returned(result), TRUE))]
    /\ UNCHANGED <<enabled, deco, calls, spans, capt, ai, gr, prog, tel, rt, rc, sem, mx, stk>>

CacheNext ==
    \/ \E variant \in CacheVariants, e \in Expiries : DecorateCache(variant, e)
    \/ Tick
    \/ \E args \in CacheArgLists : CacheCall(args)

SpecCache == InitComponents /\ [][CacheNext]_vars

----------------------------------------------------------------------------
(* Auto-instrumentation of modules: auto_instrumentation.py.  A program    *)
(* with the package pkg (its __init__ defines init), the modules pkg.a     *)
(* (fa, _ha) and pkg.b (fb, _hb, and `from pkg.a import fa`), and pkg.bad, *)
(* whose import raises ImportError.                                         *)

MaxInstrumentCalls == 2   \* calls of the auto_instrument_* functions
MaxModuleNames == 1       \* entries of module_names

\* Names a caller may pass; "nope" and "main" name no importable module
ModuleNames == {"pkg", "pkg.a", "pkg.b", "pkg.bad", "nope"}

Importable(m) == m \in {"pkg", "pkg.a", "pkg.b"}

\* hasattr(module, '__path__')
IsPackage(m) == m = "pkg"

\* pkgutil.walk_packages(package.__path__, package_name + '.')
WalkPackages(m) == IF m = "pkg" THEN <<"pkg.a", "pkg.b", "pkg.bad">> ELSE <<>>

\* The functions a module defines
OwnFunctions(m) ==
    CASE m = "pkg"   -> {"init"}
      [] m = "pkg.a" -> {"fa", "_ha"}
      [] m = "pkg.b" -> {"fb", "_hb"}
      [] OTHER       -> {}

\* from <from> import <name>
ImportedNames(m) ==
    IF m = "pkg.b" THEN {[name |-> "fa", from |-> "pkg.a"]} ELSE {}

\* The modules that importing m imports first: the parent package and the
\* modules m imports from
ImportsOf(m) ==
    CASE m = "pkg.a"   -> <<"pkg">>
      [] m = "pkg.b"   -> <<"pkg", "pkg.a">>
      [] m = "pkg.bad" -> <<"pkg">>
      [] OTHER         -> <<>>

\* name.startswith('_')
StartsWithUnderscore(name) == SubSeq(name, 1, 1) = "_"

\* excluded in name  (substring test on str)
Contains(name, excluded) ==
    \E i \in 1..(Len(name) - Len(excluded) + 1) :
        SubSeq(name, i, i + Len(excluded) - 1) = excluded

\* any(excluded in name for excluded in exclude_modules)
Excluded(name, exclude_modules) ==
    \E i \in 1..Len(exclude_modules) : Contains(name, exclude_modules[i])

\* '.'.join(calling_module.split('.')[:-1]), or calling_module when that
\* is empty
CurrentPackage(calling_module) ==
    LET dots == {i \in 1..Len(calling_module) : SubSeq(calling_module, i, i) = "."}
        last == CHOOSE i \in dots : \A j \in dots : j <= i
    IN IF dots = {} \/ last = 1 THEN calling_module
       ELSE SubSeq(calling_module, 1, last - 1)

\* importlib.import_module(m): a module not yet imported is executed once,
\* after the modules it imports; its names are bound to the functions it
\* defines and to the objects the imported names are bound to at that time.
\* A module that cannot be imported binds nothing.
RECURSIVE import_module(_, _)
RECURSIVE ImportSeq(_, _)
import_module(st, m) ==
    IF m \in st.imported THEN st
    ELSE LET st1 == ImportSeq(st, ImportsOf(m))
             own == [b \in {<<m, n>> : n \in OwnFunctions(m)} |->
                        [fn |-> b[2], mod |-> m, depth |-> 0]]
             imp == [b \in {<<m, i.name>> : i \in ImportedNames(m)} |->
                        st1.bind[<<(CHOOSE i \in ImportedNames(m) : i.name = b[2]).from,
                                   b[2]>>]]
         IN IF ~Importable(m) THEN st1
            ELSE [st1 EXCEPT !.imported = @ \cup {m}, !.bind = own @@ imp @@ @]

ImportSeq(st, ms) ==
    IF ms = <<>> THEN st ELSE ImportSeq(import_module(st, Head(ms)), Tail(ms))

\* inspect.getmembers(module) restricted to functions: the names bound in m
MemberNames(st, m) == {b[2] : b \in {c \in DOMAIN st.bind : c[1] = m}}

\* A loop that skips private functions whatever include_private says
EligibleNeverPrivate(obj, name, module_name, include_private) ==
    /\ ~StartsWithUnderscore(name)
    /\ obj.depth = 0
    /\ obj.mod = module_name

\* The tests of the loop in _instrument_module: private names only on
\* request, no object that has _otel_auto_instrumented (set on every
\* wrapper), no function whose __module__ is another module (functools.wraps
\* gives a wrapper the __module__ of the function it wraps)
Eligible(obj, name, module_name, include_private) ==
    /\ ~(~include_private /\ StartsWithUnderscore(name))
    /\ obj.depth = 0
    /\ obj.mod = module_name

\* setattr(module, name, wrapped) for every eligible member
WrapMembers(st, m, wrap) ==
    [st EXCEPT !.bind = [b \in DOMAIN st.bind |->
                            IF b[1] = m /\ b[2] \in wrap
                            THEN [st.bind[b] EXCEPT !.depth = @ + 1]
                            ELSE st.bind[b]]]

\* An instrumenter without the two guards: it neither consults
\* _instrumented_modules nor looks for _otel_auto_instrumented
_instrument_module_unguarded(st, module_name, include_private) ==
    LET st1 == import_module(st, module_name)
        wrap == {n \in MemberNames(st1, module_name) :
                    /\ ~(~include_private /\ StartsWithUnderscore(n))
                    /\ st1.bind[<<module_name, n>>].mod = module_name}
    IN IF ~Importable(module_name) THEN [st |-> st1, count |-> 0]
       ELSE [st |-> WrapMembers([st1 EXCEPT !.instrumented = @ \cup {module_name}],
                                module_name, wrap),
             count |-> Cardinality(wrap)]

\* _instrument_module(module_name, include_private): the state after the
\* call and the number it returns
_instrument_module(st, module_name, include_private) ==
    IF module_name \in st.instrumented THEN [st |-> st, count |-> 0]
    ELSE LET st1 == import_module(st, module_name)
             wrap == {n \in MemberNames(st1, module_name) :
                         Eligible(st1.bind[<<module_name, n>>], n, module_name,
                                  include_private)}
         IN IF ~Importable(module_name) THEN [st |-> st1, count |-> 0]
            ELSE [st |-> WrapMembers([st1 EXCEPT !.instrumented = @ \cup {module_name}],
                                     module_name, wrap),
                  count |-> Cardinality(wrap)]

\* for name in ...: total_instrumented += _instrument_module(name, include_private)
RECURSIVE InstrumentSeq(_, _, _)
InstrumentSeq(acc, ms, include_private) ==
    IF ms = <<>> THEN acc
    ELSE LET r == _instrument_module(acc.st, Head(ms), include_private)
         IN InstrumentSeq([st |-> r.st, count |-> acc.count + r.count], Tail(ms),
                          include_private)

\* The modules, not packages, that walk_packages yields
NotPackage(m) == ~IsPackage(m)

Submodules(m) == SelectSeq(WalkPackages(m), NotPackage)

\* The loop of auto_instrument_modules; a module that cannot be imported
\* is skipped by the `except Exception`
RECURSIVE auto_instrument_modules(_, _, _, _)
auto_instrument_modules(acc, module_names, include_private, recursive) ==
    IF module_names = <<>> THEN acc
    ELSE LET module_name == Head(module_names)
             st1 == import_module(acc.st, module_name)
             r == _instrument_module(st1, module_name, include_private)
             r1 == [st |-> r.st, count |-> acc.count + r.count]
             r2 == IF recursive /\ IsPackage(module_name)
                   THEN InstrumentSeq(r1, Submodules(module_name), include_private)
                   ELSE r1
         IN auto_instrument_modules(
                IF Importable(module_name) THEN r2 ELSE [acc EXCEPT !.st = st1],
                Tail(module_names), include_private, recursive)

\* auto_instrument_package(package_name, include_private, exclude_modules)
auto_instrument_package(st, package_name, include_private, exclude_modules) ==
    LET st1 == import_module(st, package_name)
        Wanted(name) == ~Excluded(name, exclude_modules) /\ ~IsPackage(name)
    IN IF ~Importable(package_name) \/ ~IsPackage(package_name)
       THEN [st |-> st1, count |-> 0]
       ELSE InstrumentSeq([st |-> st1, count |-> 0],
                          SelectSeq(WalkPackages(package_name), Wanted),
                          include_private)

ModuleNameLists == UNION {[1..n -> ModuleNames] : n \in 0..MaxModuleNames}

ExcludeChoices == {<<>>, <<"b">>, <<"pkg.a">>}

PackageNames == {"pkg", "pkg.a", "nope"}

CallingModules == {"pkg.a", "main"}

\* What a call leaves in the state: the new module state, the call and the
\* number it returned
AfterCall(r, op, names, include_private, recursive, exclude) ==
    [r.st EXCEPT !.n = @ + 1,
                 !.last = [op |-> op, names |-> names,
                           include_private |-> include_private,
                           recursive |-> recursive, exclude |-> exclude,
                           ret |-> r.count]]

\* The program imports a module itself
ProgramImport(m) ==
    /\ m \notin ai.imported
    /\ Importable(m)
    /\ ai' = import_module(ai, m)
    /\ UNCHANGED <<enabled, deco, calls, spans, capt, tbc, gr, prog, tel, rt, rc, sem, mx, stk>>

CallAutoInstrumentModules(module_names, include_private, recursive) ==
    /\ ai.n < MaxInstrumentCalls
    /\ ai' = AfterCall(auto_instrument_modules([st |-> ai, count |-> 0], module_names,
                                               include_private, recursive),
                       "modules", module_names, include_private, recursive, <<>>)
    /\ UNCHANGED <<enabled, deco, calls, spans, capt, tbc, gr, prog, tel, rt, rc, sem, mx, stk>>

CallAutoInstrumentPackage(package_name, include_private, exclude_modules) ==
    /\ ai.n < MaxInstrumentCalls
    /\ ai' = AfterCall(auto_instrument_package(ai, package_name, include_private,
                                               exclude_modules),
                       "package", <<package_name>>, include_private, FALSE,
                       exclude_modules)
    /\ UNCHANGED <<enabled, deco, calls, spans, capt, tbc, gr, prog, tel, rt, rc, sem, mx, stk>>

\* auto_instrument_current_package, called from calling_module
CallAutoInstrumentCurrentPackage(calling_module, include_private, exclude_modules) ==
    /\ ai.n < MaxInstrumentCalls
    /\ ai' = AfterCall(auto_instrument_package(ai, CurrentPackage(calling_module),
                                               include_private, exclude_modules),
                       "current", <<CurrentPackage(calling_module)>>, include_private,
                       FALSE, exclude_modules)
    /\ UNCHANGED <<enabled, deco, calls, spans, capt, tbc, gr, prog, tel, rt, rc, sem, mx, stk>>

AutoNext ==
    \/ \E m \in ModuleNames : ProgramImport(m)
    \/ \E names \in ModuleNameLists, p \in BOOLEAN, r \in BOOLEAN :
          CallAutoInstrumentModules(names, p, r)
    \/ \E pk \in PackageNames, p \in BOOLEAN, ex \in ExcludeChoices :
          CallAutoInstrumentPackage(pk, p, ex)
    \/ \E cm \in CallingModules, p \in BOOLEAN, ex \in ExcludeChoices :
          CallAutoInstrumentCurrentPackage(cm, p, ex)

SpecAuto == InitComponents /\ [][AutoNext]_vars

----------------------------------------------------------------------------
(* The graph functions find_node_clusters and find_cycle_vertices of       *)
(* src/dsa/nodes.py (src/algorithms/graph.py holds the same code).          *)

MaxNodes == 3        \* entries of the list `nodes`
MaxEdges == 2        \* entries of the list `edges` of find_node_clusters
MaxCycleEdges == 3   \* entries of the list `edges` of find_cycle_vertices

GraphIds == {1, 2, 3}

\* nodes: dicts with an "id" and some data (here the place in the list)
NodeLists ==
    {[i \in 1..Len(ids) |-> [id |-> ids[i], value |-> i]] :
        ids \in UNION {[1..n -> GraphIds] : n \in 0..MaxNodes}}

\* edges: dicts with "source" and "target"
EdgeLists ==
    UNION {[1..n -> [source : GraphIds, target : GraphIds]] : n \in 0..MaxEdges}

\* node_map = {node["id"]: node for node in nodes}: the last node wins
node_map(nodes) ==
    [i \in {nodes[k].id : k \in 1..Len(nodes)} |->
        nodes[CHOOSE k \in 1..Len(nodes) :
                /\ nodes[k].id = i
                /\ \A j \in 1..Len(nodes) : nodes[j].id = i => j <= k]]

NoAdjacency == [i \in {} |-> <<>>]

\* An adjacency list that follows every edge from source to target only
RECURSIVE BuildAdjacencyDirected(_, _)
BuildAdjacencyDirected(adjacency, edges) ==
    IF edges = <<>> THEN adjacency
    ELSE LET src == Head(edges).source
             tgt == Head(edges).target
             a1 == IF src \notin DOMAIN adjacency THEN (src :> <<>>) @@ adjacency
                   ELSE adjacency
             a2 == IF tgt \notin DOMAIN a1 THEN (tgt :> <<>>) @@ a1 ELSE a1
             a3 == [a2 EXCEPT ![src] = Append(@, tgt)]
         IN BuildAdjacencyDirected(a3, Tail(edges))

\* for edge in edges: adjacency[src].append(tgt); adjacency[tgt].append(src)
RECURSIVE BuildAdjacency(_, _)
BuildAdjacency(adjacency, edges) ==
    IF edges = <<>> THEN adjacency
    ELSE LET src == Head(edges).source
             tgt == Head(edges).target
             a1 == IF src \notin DOMAIN adjacency THEN (src :> <<>>) @@ adjacency
                   ELSE adjacency
             a2 == IF tgt \notin DOMAIN a1 THEN (tgt :> <<>>) @@ a1 ELSE a1
             a3 == [a2 EXCEPT ![src] = Append(@, tgt)]
             a4 == [a3 EXCEPT ![tgt] = Append(@, src)]
         IN BuildAdjacency(a4, Tail(edges))

\* for neighbor in adjacency.get(current, []): if neighbor not in visited:
\* visited.add(neighbor); queue.append(neighbor)
RECURSIVE VisitNeighbors(_, _, _)
VisitNeighbors(neighbors, visited, queue) ==
    IF neighbors = <<>> THEN [visited |-> visited, queue |-> queue]
    ELSE LET neighbor == Head(neighbors) IN
         IF neighbor \notin visited
         THEN VisitNeighbors(Tail(neighbors), visited \cup {neighbor},
                             Append(queue, neighbor))
         ELSE VisitNeighbors(Tail(neighbors), visited, queue)

\* while queue: current = queue.pop(0); cluster.append(node_map[current]);
\* node_map[current] raises KeyError for an id that is no key
RECURSIVE Bfs(_, _, _, _, _)
Bfs(map, adjacency, queue, visited, cluster) ==
    IF queue = <<>> THEN [ok |-> TRUE, visited |-> visited, cluster |-> cluster]
    ELSE LET current == Head(queue) IN
         IF current \notin DOMAIN map
         THEN [ok |-> FALSE, visited |-> visited, cluster |-> cluster]
         ELSE LET neighbors == IF current \in DOMAIN adjacency THEN adjacency[current]
                               ELSE <<>>
                  v == VisitNeighbors(neighbors, visited, Tail(queue))
              IN Bfs(map, adjacency, v.queue, v.visited,
                     Append(cluster, map[current]))

\* for node in nodes: if node_id in visited: continue; ... clusters.append(cluster)
RECURSIVE ClusterLoop(_, _, _, _, _)
ClusterLoop(nodes, map, adjacency, visited, clusters) ==
    IF nodes = <<>> THEN [ok |-> TRUE, clusters |-> clusters]
    ELSE LET node_id == Head(nodes).id IN
         IF node_id \in visited
         THEN ClusterLoop(Tail(nodes), map, adjacency, visited, clusters)
         ELSE LET b == Bfs(map, adjacency, <<node_id>>, visited \cup {node_id}, <<>>)
              IN IF ~b.ok THEN [ok |-> FALSE, clusters |-> clusters]
                 ELSE ClusterLoop(Tail(nodes), map, adjacency, b.visited,
                                  Append(clusters, b.cluster))

\* find_node_clusters(nodes, edges): the clusters, or KeyError (ok is false)
find_node_clusters(nodes, edges) ==
    ClusterLoop(nodes, node_map(nodes), BuildAdjacency(NoAdjacency, edges), {}, <<>>)

\* One call of find_node_clusters, with any nodes and edges
CallFindNodeClusters ==
    /\ gr.op = "none"
    /\ \E nodes \in NodeLists, edges \in EdgeLists :
          LET r == find_node_clusters(nodes, edges)
          IN gr' = [op |-> "clusters", nodes |-> nodes, edges |-> edges,
                    raised |-> IF r.ok THEN "" ELSE "KeyError",
                    out |-> IF r.ok THEN r.clusters ELSE <<>>]
    /\ UNCHANGED <<enabled, deco, calls, spans, capt, tbc, ai, prog, tel, rt, rc, sem, mx, stk>>

\* edges of find_cycle_vertices: (u, v) pairs
CycleEdgeLists ==
    UNION {[1..n -> GraphIds \X GraphIds] : n \in 0..MaxCycleEdges}

\* nx.DiGraph(edges): the nodes named by the edges and the set of edges
DiGraph(edges) ==
    [nodes |-> {edges[i][1] : i \in 1..Len(edges)}
                 \cup {edges[i][2] : i \in 1..Len(edges)},
     edges |-> {edges[i] : i \in 1..Len(edges)}]

\* An enumeration of the cycles with two or more vertices only
simple_cycles_without_self_loops(graph) ==
    {p \in UNION {[1..n -> graph.nodes] : n \in 2..Cardinality(graph.nodes)} :
        /\ \A i \in 1..Len(p), j \in 1..Len(p) : i # j => p[i] # p[j]
        /\ \A i \in 1..(Len(p) - 1) : <<p[i], p[i + 1]>> \in graph.edges
        /\ <<p[Len(p)], p[1]>> \in graph.edges
        /\ \A i \in 1..Len(p) : p[1] <= p[i]}

\* nx.simple_cycles(graph): every elementary circuit once, as the list of
\* its vertices (here with the smallest vertex first); a self-loop is the
\* circuit [v]
simple_cycles(graph) ==
    {p \in UNION {[1..n -> graph.nodes] : n \in 1..Cardinality(graph.nodes)} :
        /\ \A i \in 1..Len(p), j \in 1..Len(p) : i # j => p[i] # p[j]
        /\ \A i \in 1..(Len(p) - 1) : <<p[i], p[i + 1]>> \in graph.edges
        /\ <<p[Len(p)], p[1]>> \in graph.edges
        /\ \A i \in 1..Len(p) : p[1] <= p[i]}

\* sorted(set of int)
RECURSIVE Sorted(_)
Sorted(S) ==
    IF S = {} THEN <<>>
    ELSE LET least == CHOOSE x \in S : \A y \in S : x <= y
         IN <<least>> \o Sorted(S \ {least})

\* find_cycle_vertices(edges)
find_cycle_vertices(edges) ==
    LET graph == DiGraph(edges)
        cycles == simple_cycles(graph)
        cycle_vertices == UNION {{cycle[i] : i \in 1..Len(cycle)} : cycle \in cycles}
    IN Sorted(cycle_vertices)

\* One call of find_cycle_vertices, with any edges
CallFindCycleVertices ==
    /\ gr.op = "none"
    /\ \E edges \in CycleEdgeLists :
          gr' = [op |-> "cycles", nodes |-> <<>>, edges |-> edges, raised |-> "",
                 out |-> find_cycle_vertices(edges)]
    /\ UNCHANGED <<enabled, deco, calls, spans, capt, tbc, ai, prog, tel, rt, rc, sem, mx, stk>>

\* find_strongly_connected_components(nodes, edges): nodes is a list of ids.
\* The state of each depth-first search is [visited, list]: `stack` for
\* fill_order, `component` for collect_scc.
find_strongly_connected_components(nodes, edges) ==
    LET listed == {nodes[i] : i \in 1..Len(nodes)}
        \* graph[src] = the targets of the edges whose source is a listed node
        graph(node) ==
            IF node \in listed
            THEN LET from == SelectSeq(edges, LAMBDA e : e.source = node)
                 IN [k \in 1..Len(from) |-> from[k].target]
            ELSE <<>>
        \* reversed_graph[tgt] = the sources of the edges whose target is a
        \* listed node
        reversed_graph(node) ==
            IF node \in listed
            THEN LET to == SelectSeq(edges, LAMBDA e : e.target = node)
                 IN [k \in 1..Len(to) |-> to[k].source]
            ELSE <<>>
        \* fill_order(node) when rev = FALSE, collect_scc(node, component)
        \* when rev = TRUE; visit is the body and neighbors its for loop
        RECURSIVE visit(_, _, _)
        RECURSIVE neighbors(_, _, _)
        visit(node, st, rev) ==
            IF rev
            THEN neighbors(reversed_graph(node),
                           [visited |-> st.visited \cup {node},
                            list |-> Append(st.list, node)], rev)
            ELSE LET after == neighbors(graph(node),
                                        [visited |-> st.visited \cup {node},
                                         list |-> st.list], rev)
                 IN [after EXCEPT !.list = Append(@, node)]
        neighbors(ns, st, rev) ==
            IF ns = <<>> THEN st
            ELSE neighbors(Tail(ns),
                           IF Head(ns) \notin st.visited
                           THEN visit(Head(ns), st, rev) ELSE st,
                           rev)
        \* for node in nodes: if node not in visited: fill_order(node)
        RECURSIVE first_pass(_, _)
        first_pass(i, st) ==
            IF i > Len(nodes) THEN st
            ELSE first_pass(i + 1,
                            IF nodes[i] \notin st.visited
                            THEN visit(nodes[i], st, FALSE) ELSE st)
        \* while stack: node = stack.pop(); ...
        RECURSIVE second_pass(_, _, _)
        second_pass(stack, visited, sccs) ==
            IF stack = <<>> THEN sccs
            ELSE LET node == stack[Len(stack)]
                     rest == SubSeq(stack, 1, Len(stack) - 1)
                 IN IF node \notin visited
                    THEN LET c == visit(node, [visited |-> visited, list |-> <<>>], TRUE)
                         IN second_pass(rest, c.visited, Append(sccs, c.list))
                    ELSE second_pass(rest, visited, sccs)
    IN second_pass(first_pass(1, [visited |-> {}, list |-> <<>>]).list, {}, <<>>)

\* One call of find_strongly_connected_components, with any nodes and edges
CallFindStronglyConnectedComponents ==
    /\ gr.op = "none"
    /\ \E nodes \in UNION {[1..n -> GraphIds] : n \in 0..MaxNodes}, edges \in EdgeLists :
          gr' = [op |-> "sccs", nodes |-> nodes, edges |-> edges, raised |-> "",
                 out |-> find_strongly_connected_components(nodes, edges)]
    /\ UNCHANGED <<enabled, deco, calls, spans, capt, tbc, ai, prog, tel, rt, rc, sem, mx, stk>>

GraphNext ==
    \/ CallFindNodeClusters
    \/ CallFindCycleVertices
    \/ CallFindStronglyConnectedComponents

SpecGraph == InitComponents /\ [][GraphNext]_vars

----------------------------------------------------------------------------
(* The examples: src/src/dsa/various.py, algorithms/dynamic_programming.py *)

MaxRows == 2
MaxCols == 2
MaxStackOps == 3

\* matrix_sum(matrix): [sum(matrix[i]) for i in range(len(matrix))
\*                      if sum(matrix[i]) > 0]
matrix_sum(matrix) ==
    LET RECURSIVE sum(_)
        sum(row) == IF row = <<>> THEN 0 ELSE Head(row) + sum(Tail(row))
        RECURSIVE comprehension(_)
        comprehension(i) ==
            IF i > Len(matrix) THEN <<>>
            ELSE (IF sum(matrix[i]) > 0 THEN <<sum(matrix[i])>> ELSE <<>>)
                 \o comprehension(i + 1)
    IN comprehension(1)

\* One call of matrix_sum, with any matrix of small integers
CallMatrixSum ==
    /\ prog = "none"
    /\ \E matrix \in UNION {[1..m -> UNION {[1..n -> -1..1] : n \in 0..MaxCols}] :
                              m \in 0..MaxRows} :
          mx' = [matrix |-> matrix, out |-> matrix_sum(matrix)]
    /\ prog' = "matrix_sum"
    /\ UNCHANGED <<enabled, deco, calls, spans, capt, tbc, ai, gr, tel, rt, rc, sem, stk>>

\* Stack.push: self.stack.append(value)
push ==
    /\ prog \in {"none", "Stack"}
    /\ stk.n < MaxStackOps
    /\ \E value \in {IntVal(1), IntVal(2)} :
          stk' = [stack |-> Append(stk.stack, value), op |-> "push", ret |-> None,
                  n |-> stk.n + 1]
    /\ prog' = "Stack"
    /\ UNCHANGED <<enabled, deco, calls, spans, capt, tbc, ai, gr, tel, rt, rc, sem, mx>>

\* Stack.pop: self.stack.pop(0) when the list is not empty, else None
pop ==
    /\ prog \in {"none", "Stack"}
    /\ stk.n < MaxStackOps
    /\ stk' = IF stk.stack # <<>>
              THEN [stack |-> Tail(stk.stack), op |-> "pop", ret |-> stk.stack[1],
                    n |-> stk.n + 1]
              ELSE [stk EXCEPT !.op = "pop", !.ret = None, !.n = @ + 1]
    /\ prog' = "Stack"
    /\ UNCHANGED <<enabled, deco, calls, spans, capt, tbc, ai, gr, tel, rt, rc, sem, mx>>

\* Stack.peek: self.stack[0] when the list is not empty, else None
peek ==
    /\ prog \in {"none", "Stack"}
    /\ stk.n < MaxStackOps
    /\ stk' = IF stk.stack # <<>>
              THEN [stk EXCEPT !.op = "peek", !.ret = stk.stack[1], !.n = @ + 1]
              ELSE [stk EXCEPT !.op = "peek", !.ret = None, !.n = @ + 1]
    /\ prog' = "Stack"
    /\ UNCHANGED <<enabled, deco, calls, spans, capt, tbc, ai, gr, tel, rt, rc, sem, mx>>

----------------------------------------------------------------------------
(* setup_telemetry: src/src/telemetry/setup.py *)

MaxSetupCalls == 3

\* tel.global   what trace.get_tracer_provider() returns: 0 is the API's
\*              ProxyTracerProvider (nothing installed yet), i > 0 is the
\*              i-th SDK TracerProvider the program created
\* tel.sdk      the SDK TracerProviders created so far, each the list of the
\*              span processors added to it
\* tel.instrumented  the libraries whose instrumentor was started

\* A setup that looks at TelemetryConfig only
enabled_from_config(arg) == enabled

\* enabled = enabled if enabled is not None else TelemetryConfig.enabled
enabled_argument(arg) == IF arg # "None" THEN arg = "True" ELSE enabled

\* A setup that installs a fresh TracerProvider on every call
tracer_provider_always_new(t) ==
    [t EXCEPT !.sdk = Append(@, <<>>), !.global = Len(t.sdk) + 1]

\* The provider the call goes on with: a new SDK TracerProvider, installed as
\* the global one, when the existing one is the ProxyTracerProvider; the
\* existing one when it is an SDK TracerProvider
tracer_provider(t) ==
    IF t.global = 0
    THEN [t EXCEPT !.sdk = Append(@, <<>>), !.global = Len(t.sdk) + 1]
    ELSE t

\* One call of setup_telemetry
setup_telemetry ==
    /\ prog \in {"none", "setup"}
    /\ tel.n < MaxSetupCalls
    /\ \E arg \in {"None", "True", "False"},
          exporter_type \in {"None", "console", "otlp", "zipkin"},
          use_auto_instrumentation \in BOOLEAN :
          LET called == [tel EXCEPT !.n = @ + 1,
                                    !.last = [enabled |-> arg,
                                              exporter_type |-> exporter_type,
                                              use_auto_instrumentation |->
                                                  use_auto_instrumentation]]
              \* exporter_type or TelemetryConfig.exporter_type
              exporter == IF exporter_type = "None" THEN "console" ELSE exporter_type
              span_processor == IF exporter = "console" THEN "SimpleSpanProcessor"
                                ELSE "BatchSpanProcessor"
              t == tracer_provider(called)
          IN IF ~enabled_argument(arg)
             THEN tel' = called
             ELSE tel' = [t EXCEPT
                            !.sdk[t.global] = Append(@, span_processor),
                            !.instrumented =
                                IF use_auto_instrumentation
                                THEN @ \cup {"numpy", "pandas"} ELSE @]
    /\ prog' = "setup"
    /\ UNCHANGED <<enabled, deco, calls, spans, capt, tbc, ai, gr, rt, rc, sem, mx, stk>>

----------------------------------------------------------------------------
(* retry_with_backoff: src/src/asynchrony/various.py *)

MaxRetries == 3

\* rt.log   what the coroutine has awaited so far: the calls of func, each
\*          with its outcome, and the sleeps
\* rt.out   how the coroutine ended, once rt.pc = "done"

\* A loop that backs off after every failed attempt, the last one included
sleeps_after_every_attempt(attempt, max_retries) == TRUE

\* if attempt < max_retries - 1: await asyncio.sleep(backoffs[attempt])
sleeps_before_next_attempt(attempt, max_retries) == attempt < max_retries - 1

\* The call: the check of max_retries, then the loop is entered
retry_with_backoff ==
    /\ prog = "none"
    /\ \E max_retries \in -1..MaxRetries :
          rt' = IF max_retries < 1
                THEN [max_retries |-> max_retries, attempt |-> 0, log |-> <<>>,
                      pc |-> "done",
                      out |-> Raised(Exc("ValueError", "max_retries must be at least 1"))]
                ELSE [max_retries |-> max_retries, attempt |-> 0, log |-> <<>>,
                      pc |-> "loop", out |-> NoOutcome]
    /\ prog' = "retry"
    /\ UNCHANGED <<enabled, deco, calls, spans, capt, tbc, ai, gr, tel, rc, sem, mx, stk>>

\* One iteration of `for attempt in range(max_retries)`: await func(); a
\* value is returned, an Exception is kept in last_exception and followed by
\* the sleep or, after the last iteration, raised; anything else that func
\* raises (asyncio.CancelledError) leaves the coroutine at once.
Attempt ==
    /\ prog = "retry"
    /\ rt.pc = "loop"
    /\ \E r \in FOutcomes \cup {Raised(StrErr)} :
          LET called == Append(rt.log, [ev |-> "call", r |-> r])
              caught == [rt EXCEPT
                           !.log = IF sleeps_before_next_attempt(rt.attempt, rt.max_retries)
                                   THEN Append(called, [ev |-> "sleep", r |-> NoOutcome])
                                   ELSE called,
                           !.attempt = @ + 1]
          IN rt' = IF r.kind = "return" \/ ~IsException(r.exc)
                   THEN [rt EXCEPT !.log = called, !.pc = "done", !.out = r]
                   ELSE IF caught.attempt < rt.max_retries
                   THEN caught
                   ELSE [caught EXCEPT !.pc = "done", !.out = Raised(r.exc)]
    /\ UNCHANGED <<enabled, deco, calls, spans, capt, tbc, ai, gr, prog, tel, rc, sem, mx, stk>>

----------------------------------------------------------------------------
(* race_condition_example: src/src/async_examples/concurrency.py *)

\* The number of increment_counter tasks (5 in the source) and of iterations
\* of each (1000 in the source)
Incrementers == 3
Increments == 2

\* rc.counter  counter["value"]
\* rc.tasks    per task: pc ("new" created by gather and not yet run,
\*             "sleeping" in asyncio.sleep, "woken" timer fired, "done"),
\*             its local `current`, and the iterations it has left
\* rc.ready    the event loop's queue of tasks to run, first in first out

\* An increment that reads the counter again when it writes
write_back_atomic(current, counter) == counter + 1

\* counter["value"] = current + 1
write_back(current, counter) == current + 1

\* tasks = [increment_counter() for _ in range(5)]; asyncio.gather(*tasks)
\* makes a task of each coroutine and schedules them in order
race_condition_example ==
    /\ prog = "none"
    /\ rc' = [counter |-> 0,
              tasks |-> [t \in 1..Incrementers |->
                           [pc |-> "new", current |-> 0, left |-> Increments]],
              ready |-> [t \in 1..Incrementers |-> t]]
    /\ prog' = "race"
    /\ UNCHANGED <<enabled, deco, calls, spans, capt, tbc, ai, gr, tel, rt, sem, mx, stk>>

\* The event loop runs the first ready task up to its next await: a woken
\* task writes current + 1 back and ends an iteration; a task with an
\* iteration to do reads the counter into `current` and sleeps.
increment_counter ==
    /\ prog = "race"
    /\ rc.ready # <<>>
    /\ LET t == Head(rc.ready)
           task == rc.tasks[t]
           value == IF task.pc = "woken" THEN write_back(task.current, rc.counter)
                    ELSE rc.counter
           left == IF task.pc = "woken" THEN task.left - 1 ELSE task.left
       IN rc' = [counter |-> value,
                 tasks |-> [rc.tasks EXCEPT ![t] =
                              IF left > 0
                              THEN [pc |-> "sleeping", current |-> value, left |-> left]
                              ELSE [pc |-> "done", current |-> task.current, left |-> 0]],
                 ready |-> Tail(rc.ready)]
    /\ UNCHANGED <<enabled, deco, calls, spans, capt, tbc, ai, gr, prog, tel, rt, sem, mx, stk>>

\* The timer of a sleeping task fires: the task is appended to the ready queue
sleep_done ==
    /\ prog = "race"
    /\ \E t \in 1..Incrementers :
          /\ rc.tasks[t].pc = "sleeping"
          /\ rc' = [rc EXCEPT !.tasks[t].pc = "woken", !.ready = Append(@, t)]
    /\ UNCHANGED <<enabled, deco, calls, spans, capt, tbc, ai, gr, prog, tel, rt, sem, mx, stk>>

----------------------------------------------------------------------------
(* inefficient_semaphore_usage: src/src/async_examples/concurrency.py *)

\* The number of limited_task tasks (10 in the source)
LimitedTasks == 3

\* sem.value    the free permits of asyncio.Semaphore(1)
\* sem.waiters  the tasks suspended in semaphore.acquire(), first in first out
\* sem.tasks    per task: "new", "waiting", "holding" (in the try block),
\*              "returned" or "raised"

\* A limited_task whose permit is given back only when it returns
release_on_return(s, outcome) ==
    IF outcome = "raised" THEN s
    ELSE IF s.waiters # <<>>
    THEN [s EXCEPT !.tasks[Head(s.waiters)] = "holding", !.waiters = Tail(@)]
    ELSE [s EXCEPT !.value = @ + 1]

\* finally: semaphore.release(), on return and on raise alike: the permit goes
\* to the first waiter, or back to the semaphore when nobody waits
release(s, outcome) ==
    IF s.waiters # <<>>
    THEN [s EXCEPT !.tasks[Head(s.waiters)] = "holding", !.waiters = Tail(@)]
    ELSE [s EXCEPT !.value = @ + 1]

\* semaphore = asyncio.Semaphore(1) and the loop of asyncio.create_task
inefficient_semaphore_usage ==
    /\ prog = "none"
    /\ sem' = [value |-> 1, waiters |-> <<>>,
               tasks |-> [t \in 1..LimitedTasks |-> "new"]]
    /\ prog' = "semaphore"
    /\ UNCHANGED <<enabled, deco, calls, spans, capt, tbc, ai, gr, tel, rt, rc, mx, stk>>

\* await semaphore.acquire(), the first step of a task; the tasks start in the
\* order of their creation
acquire ==
    /\ prog = "semaphore"
    /\ \E t \in 1..LimitedTasks :
          /\ sem.tasks[t] = "new"
          /\ \A u \in 1..(t - 1) : sem.tasks[u] # "new"
          /\ sem' = IF sem.value > 0 /\ sem.waiters = <<>>
                    THEN [sem EXCEPT !.value = @ - 1, !.tasks[t] = "holding"]
                    ELSE [sem EXCEPT !.waiters = Append(@, t), !.tasks[t] = "waiting"]
    /\ UNCHANGED <<enabled, deco, calls, spans, capt, tbc, ai, gr, prog, tel, rt, rc, mx, stk>>

\* The try block of a task that holds the permit: fake_api_call completes,
\* then the task returns the result or raises Exception("Random failure"),
\* and the finally block runs
limited_task ==
    /\ prog = "semaphore"
    /\ \E t \in 1..LimitedTasks, outcome \in {"returned", "raised"} :
          /\ sem.tasks[t] = "holding"
          /\ sem' = release([sem EXCEPT !.tasks[t] = outcome], outcome)
    /\ UNCHANGED <<enabled, deco, calls, spans, capt, tbc, ai, gr, prog, tel, rt, rc, mx, stk>>

----------------------------------------------------------------------------

ExamplesNext ==
    \/ CallMatrixSum
    \/ push
    \/ pop
    \/ peek
    \/ \E b \in TelemetryConfigEnabled : SetEnabled(b)
    \/ setup_telemetry
    \/ retry_with_backoff
    \/ Attempt
    \/ race_condition_example
    \/ increment_counter
    \/ sleep_done
    \/ inefficient_semaphore_usage
    \/ acquire
    \/ limited_task

SpecExamples == InitComponents /\ [][ExamplesNext]_vars

----------------------------------------------------------------------------
(* Properties *)

ViaWrapper(c) == calls[c].via = "wrapper"

\* The wrapper has returned or raised
WrapperLeft(c) == calls[c].pc \in {"awaiting", "done"}

SpanOf(c) == spans[calls[c].span]

\* The part of a span that the owning invocation writes
SpanContent(s) ==
    [name |-> s.name, attrs |-> s.attrs, status |-> s.status,
     description |-> s.description, events |-> s.events, ended |-> s.ended]

\* What an invocation is given and what its own function and its own
\* instrumentation steps did
OwnRun(r) ==
    [fn |-> r.fn, args |-> r.args, pc |-> r.pc, result |-> r.result, exc |-> r.exc,
     fout |-> r.fout, ifail |-> r.ifail]

\* C1: the span an invocation opens is closed exactly once on every exit
\* path (return, exception of f, failure of the instrumentation): open
\* while the wrapper runs, ended once when it has returned or raised, and
\* no span is ever ended twice.
C1_SpanClosedExactlyOnce ==
    /\ \A i \in 1..Len(spans) : spans[i].ended <= 1
    /\ \A c \in Calls :
          ViaWrapper(c) =>
             /\ calls[c].span \in 1..Len(spans)
             /\ WrapperLeft(c) <=> SpanOf(c).ended = 1

\* An invocation that left through an instrumentation failure, span closed
C1_Witness ==
    \E c \in Calls :
       /\ ViaWrapper(c)
       /\ calls[c].pc = "done"
       /\ calls[c].ifail = "str_ret"
       /\ calls[c].res.kind = "raise"
       /\ SpanOf(c).ended = 1

\* C2: when f returns normally the wrapped function returns exactly f's
\* value, and f was invoked with the caller's unmodified arguments.
C2_ReturnTransparent ==
    \A c \in Calls :
       (ViaWrapper(c) /\ calls[c].fout.kind = "return") =>
          /\ calls[c].fargs = calls[c].args
          /\ calls[c].pc = "done" => calls[c].res = calls[c].fout

\* C3: whenever f raises, the caller gets that same exception (type and
\* message): not another exception, not a return value.
C3_ExceptionPropagates ==
    \A c \in Calls :
       (ViaWrapper(c) /\ calls[c].fout.kind = "raise" /\ calls[c].pc = "done") =>
          calls[c].res = Raised(calls[c].fout.exc)

\* f raised ValueError("x") inside trace_function's wrapper and the caller got it
C3_Witness ==
    \E c \in Calls :
       /\ ViaWrapper(c)
       /\ calls[c].pc = "done"
       /\ FuncDef(calls[c].fn).kind = "trace"
       /\ calls[c].fout = Raised(ValueErr)
       /\ calls[c].res = Raised(ValueErr)
       /\ SpanOf(c).events = <<ValueErr>>

\* C4: a closed span carries exactly one status: OK iff f returned normally,
\* ERROR with the exception's message (and the exception recorded) iff f
\* raised.
C4_StatusMatchesOutcome ==
    \A c \in Calls :
       (ViaWrapper(c) /\ SpanOf(c).ended >= 1) =>
          /\ SpanOf(c).nstatus = 1
          /\ SpanOf(c).status = "OK" <=> calls[c].fout.kind = "return"
          /\ (/\ SpanOf(c).status = "ERROR"
              /\ SpanOf(c).description = calls[c].fout.exc.msg
              /\ SpanOf(c).events = <<calls[c].fout.exc>>)
               <=> calls[c].fout.kind = "raise"

\* C5: a failure while capturing the arguments is swallowed: f still runs
\* once with the original arguments and the caller sees f's own outcome.
C5_ArgCaptureFailureSwallowed ==
    \A c \in Calls :
       (ViaWrapper(c) /\ calls[c].ifail \in {"bind", "str_arg"}
          /\ calls[c].pc = "done") =>
          /\ calls[c].nexec = 1
          /\ calls[c].fargs = calls[c].args
          /\ calls[c].fout # NoOutcome
          /\ calls[c].res = calls[c].fout

\* C6: a failure while recording the return value changes nothing: the
\* caller receives f's return value and the span is not marked ERROR.
C6_ReturnCaptureFailureHarmless ==
    \A c \in Calls :
       (ViaWrapper(c) /\ calls[c].ifail = "str_ret" /\ calls[c].pc = "done") =>
          /\ calls[c].res.kind = "return"
          /\ calls[c].res = calls[c].fout
          /\ SpanOf(c).status # "ERROR"

\* C7: a call of a trace_function-decorated function made while
\* TelemetryConfig.enabled is false runs the undecorated f: no span is
\* opened (and hence no attribute set).
C7_DisabledCallIsDirect ==
    [][\A c \in Calls :
          (/\ ~enabled
           /\ calls[c].pc = "idle" /\ calls'[c].pc # "idle"
           /\ FuncDef(calls'[c].fn).kind = "trace") =>
             (calls'[c].via = "raw" /\ spans' = spans)]_vars

\* C8: for an asynchronous f the span is closed, and its status decided,
\* only once the awaited result or exception of f is known.
C8_SpanCoversAsyncCompletion ==
    \A c \in Calls :
       (ViaWrapper(c) /\ FuncDef(calls[c].fn).async
          /\ (SpanOf(c).ended >= 1 \/ SpanOf(c).status # "UNSET")) =>
          calls[c].fout.kind # "none"

\* C9: a cancelled call still closes its span exactly once, never with
\* status OK, and the cancellation reaches the caller unchanged.
C9_CancellationIsExceptional ==
    \A c \in Calls :
       (ViaWrapper(c) /\ calls[c].fout = Raised(Cancelled)) =>
          /\ SpanOf(c).status # "OK"
          /\ calls[c].pc = "done" =>
                (SpanOf(c).ended = 1 /\ calls[c].res = Raised(Cancelled))

\* C10: no caching: every invocation of a wrapper opens one new span of its
\* own, and one whose instrumentation did not fail has executed f exactly
\* once when the wrapper returns, also when the same arguments were used
\* before; n invocations give n distinct spans and n executions.
C10_NoCaching ==
    LET W == {c \in Calls : ViaWrapper(c)}
        Good == {c \in W : WrapperLeft(c) /\ calls[c].ifail = "none"}
    IN
    /\ Len(spans) = Cardinality(W)
    /\ \A c \in W : calls[c].span \in 1..Len(spans) /\ SpanOf(c).owner = c
    /\ \A c, b \in W : c # b => calls[c].span # calls[b].span
    /\ \A c \in Good : calls[c].nexec = 1

\* Two completed invocations of the same function with the same arguments
C10_Witness ==
    \E c, b \in Calls :
       /\ c # b
       /\ ViaWrapper(c) /\ ViaWrapper(b)
       /\ calls[c].pc = "done" /\ calls[b].pc = "done"
       /\ calls[c].fn = calls[b].fn /\ calls[c].args = calls[b].args
       /\ calls[c].ifail = "none" /\ calls[b].ifail = "none"
       /\ calls[c].fout.kind = "return" /\ calls[b].fout.kind = "return"
       /\ calls[c].nexec = 1 /\ calls[b].nexec = 1
       /\ calls[c].span # calls[b].span

\* C11: in any interleaving of invocations, a step changes only the span
\* opened by the invocation that takes the step, a step of a wrapper leaves
\* TelemetryConfig.enabled and the functions' bindings alone, and two
\* invocations through a wrapper that were given the same and whose own
\* code did the same have written the same into their spans
C11_InvocationsIsolated ==
    [][/\ \A i \in 1..Len(spans) :
             spans'[i] # spans[i] =>
                 \E c \in Calls : /\ calls[c].span = i
                                  /\ spans[i].owner = c
                                  /\ calls'[c] # calls[c]
                                  /\ \A b \in Calls \ {c} : calls'[b] = calls[b]
       /\ (\E c \in Calls : ViaWrapper(c) /\ calls'[c] # calls[c])
              => (enabled' = enabled /\ deco' = deco)
       /\ \A c \in Calls, b \in Calls :
             (/\ calls'[c].via = "wrapper" /\ calls'[b].via = "wrapper"
              /\ OwnRun(calls'[c]) = OwnRun(calls'[b]))
                 => SpanContent(spans'[calls'[c].span])
                      = SpanContent(spans'[calls'[b].span])]_vars

\* Two invocations through wrappers are under way at once, each with
\* writes on its own span: one after f returned, one handling an exception
C11_Witness ==
    /\ ViaWrapper(1) /\ ViaWrapper(2)
    /\ calls[1].pc = "exit" /\ calls[2].pc = "exit"
    /\ calls[1].span # calls[2].span
    /\ SpanOf(1).status = "OK" /\ SpanOf(2).status = "ERROR"
    /\ SpanOf(1).ended = 0 /\ SpanOf(2).ended = 0

\* The value a call gives parameter p: the positional argument at p's
\* place, else the keyword argument named p, else p's default
PassedValue(args, p) ==
    IF ParamIndex(p) <= Len(args.pos) THEN args.pos[ParamIndex(p)]
    ELSE IF p \in DOMAIN args.kw THEN args.kw[p]
    ELSE Defaults[p]

Requested(names, n) == \E i \in 1..Len(names) : names[i] = n

\* C12: when the capture block has run and f is about to be invoked, the
\* span has function.<name> exactly for the capture_args names that are
\* parameters of f, with the string form of the value the call gave the
\* parameter (positionally, by keyword or by default; values longer than the
\* attribute limit are covered by C13); a name that is no parameter gives
\* no attribute and no error
C12_RequestedArgsCaptured ==
    (capt.phase = "args" /\ BindOk(capt.args)) =>
        /\ (\A p \in ParamSet :
               Requested(capt.names, p) => StrOk(PassedValue(capt.args, p)))
              => capt.ok
        /\ capt.ok =>
              \A n \in CaptNameSet \cup ParamSet :
                 LET key == "function." \o n IN
                 /\ key \in DOMAIN capt.span.attrs
                       <=> (Requested(capt.names, n) /\ n \in ParamSet)
                 /\ (/\ key \in DOMAIN capt.span.attrs
                     /\ Len(Str(PassedValue(capt.args, n))) <= MaxAttrLen)
                       => capt.span.attrs[key] = Str(PassedValue(capt.args, n))

\* capture_args = ["z", "b"] and the call f(5): z is no parameter, a is not
\* requested, b comes from its default 2
C12_Witness ==
    /\ capt.phase = "args" /\ capt.ok
    /\ capt.names = <<"z", "b">>
    /\ capt.args = [pos |-> <<IntVal(5)>>, kw |-> EmptyKw]
    /\ DOMAIN capt.span.attrs = {"function.b"}
    /\ capt.span.attrs["function.b"] = "2"

\* The string a captured attribute must hold for the value v
Stored(v) ==
    IF Len(Str(v)) <= 250 THEN Str(v)
    ELSE SubSeq(Str(v), 1, 250) \o "..."

\* C13: every captured attribute (function.<name>, function.return) is the
\* full string form when that has at most 250 characters and otherwise its
\* first 250 characters followed by "..."; it is never longer than 253
\* characters, and a string of exactly 250 characters is stored unchanged
C13_AttributeTruncation ==
    /\ \A p \in ParamSet :
          (capt.phase = "args" /\ ("function." \o p) \in DOMAIN capt.span.attrs) =>
              LET v == PassedValue(capt.args, p)
                  attr == capt.span.attrs["function." \o p]
              IN /\ attr = Stored(v)
                 /\ Len(attr) <= 253
                 /\ Len(Str(v)) = 250 => attr = Str(v)
    /\ (capt.phase = "ret" /\ "function.return" \in DOMAIN capt.span.attrs) =>
          LET attr == capt.span.attrs["function.return"]
          IN /\ attr = Stored(capt.ret)
             /\ Len(attr) <= 253
             /\ Len(Str(capt.ret)) = 250 => attr = Str(capt.ret)

\* A return value of 251 characters was captured as 250 characters and
\* "...", and an argument of exactly 250 characters in full
C13_Witness ==
    \/ /\ capt.phase = "ret" /\ capt.ret = StrVal(251)
       /\ Len(capt.span.attrs["function.return"]) = 253
       /\ SubSeq(capt.span.attrs["function.return"], 251, 253) = "..."
    \/ /\ capt.phase = "args" /\ capt.ok
       /\ capt.names = <<"a">> /\ capt.args.pos = <<StrVal(250)>>
       /\ Len(capt.span.attrs["function.a"]) = 250

\* C14: a call of the cached function invokes the underlying function
\* exactly when the cache has no entry for the call's key or the entry's
\* age (the call's time minus the stored timestamp) is at least
\* expiry_seconds; otherwise it returns the stored result and leaves the
\* cache alone; a recomputation that returns replaces the entry by the new
\* result and the call's time
C14_RecomputeWhenAbsentOrExpired ==
    [][Len(tbc'.log) = Len(tbc.log) + 1 =>
         LET e == tbc'.log[Len(tbc'.log)]
             had == e.key \in DOMAIN tbc.cache
             expired == had /\ tbc.now - tbc.cache[e.key].timestamp >= tbc.expiry
         IN /\ e.invoked <=> (~had \/ expired)
            /\ tbc'.nfunc = tbc.nfunc + (IF ~had \/ expired THEN 1 ELSE 0)
            /\ ~(~had \/ expired) =>
                  /\ e.out = Returned(tbc.cache[e.key].result)
                  /\ tbc'.cache = tbc.cache
            /\ ((~had \/ expired) /\ e.out.kind = "return") =>
                  /\ e.key \in DOMAIN tbc'.cache
                  /\ tbc'.cache[e.key] = [result |-> e.out.val, timestamp |-> tbc.now]
                  /\ \A k \in DOMAIN tbc.cache \ {e.key} :
                         k \in DOMAIN tbc'.cache /\ tbc'.cache[k] = tbc.cache[k]]_vars

\* With expiry_seconds = 2: a call at time 0 computed 1, and a call with the
\* same key at time 2 (age 2) computed again and replaced the entry
C14_Witness ==
    /\ tbc.expiry = 2 /\ Len(tbc.log) = 2
    /\ tbc.log[1].key = tbc.log[2].key
    /\ tbc.log[1].t = 0 /\ tbc.log[2].t = 2
    /\ tbc.log[2].invoked /\ tbc.log[2].out = Returned(IntVal(2))
    /\ tbc.cache[tbc.log[2].key] = [result |-> IntVal(2), timestamp |-> 2]

\* The value a call gives the keyword k, wherever k was written
KwValue(kw, k) == kw[CHOOSE i \in 1..Len(kw) : kw[i][1] = k][2]

SameArguments(a, b) ==
    /\ a.pos = b.pos
    /\ {a.kw[i][1] : i \in 1..Len(a.kw)} = {b.kw[i][1] : i \in 1..Len(b.kw)}
    /\ \A i \in 1..Len(a.kw) : KwValue(b.kw, a.kw[i][1]) = a.kw[i][2]

Targeted(last) ==
    LET named == {last.names[i] : i \in 1..Len(last.names)}
        walked(m) == {WalkPackages(m)[i] : i \in 1..Len(WalkPackages(m))}
    IN IF last.op = "modules"
       THEN named \cup (IF last.recursive
                        THEN UNION {{s \in walked(m) : ~IsPackage(s)} :
                                       m \in {x \in named : Importable(x)}}
                        ELSE {})
       ELSE UNION {{s \in walked(m) :
                       ~IsPackage(s) /\ ~Excluded(s, last.exclude)} : m \in named}

\* One of the auto_instrument_* functions is called in this step
InstrumentStep == ai'.n = ai.n + 1

\* C16: after any sequence of auto_instrument_modules, _package and
\* _current_package calls no name is bound to a function wrapped more than
\* once (a call of it opens one auto-instrumentation span), and a call whose
\* modules are all instrumented already returns 0 and replaces no function
C16_WrappedAtMostOnce ==
    [][/\ \A b \in DOMAIN ai'.bind : ai'.bind[b].depth <= 1
       /\ (InstrumentStep /\ Targeted(ai'.last) \subseteq ai.instrumented) =>
             /\ ai'.last.ret = 0
             /\ \A b \in DOMAIN ai.bind : ai'.bind[b] = ai.bind[b]]_vars

\* pkg.a was instrumented, and a second call naming pkg.a returned 0: fa is
\* still wrapped once
C16_Witness ==
    /\ ai.n = 2
    /\ ai.last.op = "modules" /\ ai.last.names = <<"pkg.a">> /\ ai.last.ret = 0
    /\ "pkg.a" \in ai.instrumented
    /\ ai.bind[<<"pkg.a", "fa">>].depth = 1

\* The private functions a module defines
PrivateFunctions(m) == {n \in OwnFunctions(m) : StartsWithUnderscore(n)}

\* After the step every private function of module m is wrapped
PrivateWrapped(m) ==
    \A n \in PrivateFunctions(m) :
        <<m, n>> \in DOMAIN ai'.bind /\ ai'.bind[<<m, n>>].depth >= 1

\* The step wraps no private function
NoPrivateWrappedByStep ==
    \A b \in DOMAIN ai'.bind :
        StartsWithUnderscore(b[2]) =>
            ai'.bind[b].depth = (IF b \in DOMAIN ai.bind THEN ai.bind[b].depth ELSE 0)

\* C17: a call of auto_instrument_modules or auto_instrument_package with
\* include_private=True leaves every function whose name starts with '_'
\* wrapped in every module it targets; a call with include_private=False
\* wraps no such function
C17_PrivateFollowsFlag ==
    [][InstrumentStep =>
          IF ai'.last.include_private
          THEN \A m \in Targeted(ai'.last) : Importable(m) => PrivateWrapped(m)
          ELSE NoPrivateWrappedByStep]_vars

\* C17 restricted to the targeted modules that were not instrumented
\* before the call: those are the modules whose private functions a call
\* with include_private=True leaves wrapped
C17_PrivateFollowsFlagInNewModules ==
    [][InstrumentStep =>
          IF ai'.last.include_private
          THEN \A m \in Targeted(ai'.last) \ ai.instrumented :
                  Importable(m) => PrivateWrapped(m)
          ELSE NoPrivateWrappedByStep]_vars

\* auto_instrument_modules(["pkg.a"], include_private=True) as the first
\* call wrapped fa and _ha
C17_Witness ==
    /\ ai.n = 1
    /\ ai.last.op = "modules" /\ ai.last.include_private
    /\ ai.last.names = <<"pkg.a">> /\ ai.last.ret = 2
    /\ ai.bind[<<"pkg.a", "_ha">>].depth = 1
    /\ ai.bind[<<"pkg.a", "fa">>].depth = 1

NodeIds(nodes) == {nodes[k].id : k \in 1..Len(nodes)}

DistinctIds(nodes) ==
    \A i \in 1..Len(nodes), j \in 1..Len(nodes) : nodes[i].id = nodes[j].id => i = j

ValidEndpoints(nodes, edges) ==
    \A k \in 1..Len(edges) :
        edges[k].source \in NodeIds(nodes) /\ edges[k].target \in NodeIds(nodes)

\* The ids joined to one of the ids in S by an edge, in either direction
Linked(S, edges) ==
    S \cup {edges[k].target : k \in {j \in 1..Len(edges) : edges[j].source \in S}}
      \cup {edges[k].source : k \in {j \in 1..Len(edges) : edges[j].target \in S}}

\* The connected component of an id
RECURSIVE Component(_, _)
Component(S, edges) ==
    IF Linked(S, edges) = S THEN S ELSE Component(Linked(S, edges), edges)

\* The places (cluster, position) at which a node occurs in the output
Places(out, node) ==
    {pl \in UNION {{<<c, k>> : k \in 1..Len(out[c])} : c \in 1..Len(out)} :
        out[pl[1]][pl[2]] = node}

\* C18: for nodes with distinct ids and edges whose endpoints are ids of
\* nodes, find_node_clusters returns a partition of the nodes: every node
\* is in exactly one cluster, exactly once, and two nodes are in the same
\* cluster exactly when a path of edges, read as undirected, connects them
\* (so duplicate edges and cycles change nothing)
C18_ClustersAreComponents ==
    (/\ gr.op = "clusters" /\ DistinctIds(gr.nodes)
     /\ ValidEndpoints(gr.nodes, gr.edges)) =>
        /\ gr.raised = ""
        /\ \A c \in 1..Len(gr.out) : gr.out[c] # <<>>
        /\ \A c \in 1..Len(gr.out) : \A k \in 1..Len(gr.out[c]) :
              \E i \in 1..Len(gr.nodes) : gr.out[c][k] = gr.nodes[i]
        /\ \A i \in 1..Len(gr.nodes) : Cardinality(Places(gr.out, gr.nodes[i])) = 1
        /\ \A i \in 1..Len(gr.nodes), j \in 1..Len(gr.nodes) :
              (\E p \in Places(gr.out, gr.nodes[i]), q \in Places(gr.out, gr.nodes[j]) :
                   p[1] = q[1])
                <=> gr.nodes[j].id \in Component({gr.nodes[i].id}, gr.edges)

\* Nodes 1, 2, 3 with the edge 3 -> 1 given twice: clusters {1, 3} and {2}
C18_Witness ==
    /\ gr.op = "clusters" /\ gr.raised = ""
    /\ Len(gr.nodes) = 3 /\ DistinctIds(gr.nodes)
    /\ gr.nodes[1].id = 1 /\ gr.nodes[2].id = 2
    /\ gr.edges = <<[source |-> 3, target |-> 1], [source |-> 3, target |-> 1]>>
    /\ gr.out = <<<<gr.nodes[1], gr.nodes[3]>>, <<gr.nodes[2]>>>>

\* C19: find_node_clusters raises KeyError whenever an edge has a source or
\* a target that is not the id of a node in `nodes`
C19_UnknownEndpointRaisesKeyError ==
    (gr.op = "clusters" /\ ~ValidEndpoints(gr.nodes, gr.edges))
        => gr.raised = "KeyError"

\* The pairs (u, w) with a directed path of one or more edges from u to w
RECURSIVE Paths(_)
Paths(R) ==
    LET joined == {ab \in R \X R : ab[1][2] = ab[2][1]}
        step == R \cup {<<ab[1][1], ab[2][2]>> : ab \in joined}
    IN IF step = R THEN R ELSE Paths(step)

\* C20: find_cycle_vertices returns, in ascending order and without
\* duplicates, exactly the vertices that lie on a directed cycle (a path of
\* one or more edges from the vertex back to itself, a self-loop included);
\* the result is empty for an empty or acyclic graph
C20_CycleVerticesSorted ==
    gr.op = "cycles" =>
        LET E == {gr.edges[i] : i \in 1..Len(gr.edges)}
            V == {e[1] : e \in E} \cup {e[2] : e \in E}
            on_cycle == {v \in V : <<v, v>> \in Paths(E)}
        IN /\ \A i \in 1..(Len(gr.out) - 1) : gr.out[i] < gr.out[i + 1]
           /\ {gr.out[i] : i \in 1..Len(gr.out)} = on_cycle
           /\ on_cycle = {} => gr.out = <<>>

\* The self-loop 3 -> 3 and the cycle 2 -> 1 -> 2: all three vertices, ascending
C20_Witness ==
    /\ gr.op = "cycles"
    /\ gr.edges = <<<<3, 3>>, <<2, 1>>, <<1, 2>>>>
    /\ gr.out = <<1, 2, 3>>

\* C21: matrix_sum returns the row sums of the matrix: one entry per row, in
\* row order, each the sum of that row's elements.
C21_MatrixSumIsRowSums ==
    LET RECURSIVE RowSum(_)
        RowSum(row) == IF row = <<>> THEN 0 ELSE Head(row) + RowSum(Tail(row))
    IN prog = "matrix_sum" =>
          mx.out = [i \in 1..Len(mx.matrix) |-> RowSum(mx.matrix[i])]

\* C29: Stack is last-in first-out: pop removes and returns the most recently
\* pushed element that has not been popped, peek returns it and removes
\* nothing, and on an empty stack both return None and leave it empty.  (The
\* list holds the pushed elements not yet popped, in the order of the pushes.)
C29_StackIsLifo ==
    [][(stk'.n # stk.n /\ stk'.op \in {"pop", "peek"}) =>
          IF stk.stack = <<>>
          THEN stk'.ret = None /\ stk'.stack = <<>>
          ELSE /\ stk'.ret = stk.stack[Len(stk.stack)]
               /\ stk'.stack = IF stk'.op = "peek" THEN stk.stack
                               ELSE SubSeq(stk.stack, 1, Len(stk.stack) - 1)]_vars

\* C22: a call of setup_telemetry with enabled=False, or with enabled omitted
\* while TelemetryConfig.enabled is false, changes nothing: the global tracer
\* provider, the providers and their span processors, the started
\* instrumentors and TelemetryConfig.enabled are what they were.
C22_DisabledSetupHasNoEffect ==
    [][(tel'.n # tel.n /\ (\/ tel'.last.enabled = "False"
                           \/ tel'.last.enabled = "None" /\ ~enabled)) =>
          /\ tel'.global = tel.global
          /\ tel'.sdk = tel.sdk
          /\ tel'.instrumented = tel.instrumented
          /\ enabled' = enabled]_vars

\* setup_telemetry(enabled=False) was called after an enabled call, and with
\* enabled omitted while TelemetryConfig.enabled was false
C22_Witness ==
    /\ tel.n = MaxSetupCalls
    /\ tel.last.enabled = "None"
    /\ ~enabled
    /\ tel.global = 1
    /\ Len(tel.sdk[1]) = 1

\* C25: an enabled call of setup_telemetry adds exactly one span processor to
\* the provider it uses, and it uses the installed SDK TracerProvider when
\* there is one: k enabled calls leave k processors on that provider.
C25_EnabledSetupAddsOneProcessor ==
    [][(tel'.n # tel.n /\ (\/ tel'.last.enabled = "True"
                           \/ tel'.last.enabled = "None" /\ enabled)) =>
          /\ tel'.global > 0
          /\ tel.global > 0 => tel'.global = tel.global /\ Len(tel'.sdk) = Len(tel.sdk)
          /\ Len(tel'.sdk[tel'.global]) =
                (IF tel.global = 0 THEN 0 ELSE Len(tel.sdk[tel.global])) + 1
          /\ \A i \in 1..Len(tel.sdk) :
                i # tel'.global => tel'.sdk[i] = tel.sdk[i]]_vars

\* Three enabled calls: one provider, three span processors
C25_Witness ==
    /\ tel.n = 3
    /\ tel.global = 1
    /\ Len(tel.sdk) = 1
    /\ Len(tel.sdk[1]) = 3

\* C23: retry_with_backoff with max_retries >= 1 awaits func at most
\* max_retries times; it returns the value of the first attempt that succeeds
\* and makes no attempt after it; when max_retries attempts have raised it
\* raises the exception of the last one; every sleep is between two attempts.
\* With max_retries < 1 it raises ValueError and never calls func.
C23_RetryAttempts ==
    (prog = "retry") =>
        LET attempts == {i \in DOMAIN rt.log : rt.log[i].ev = "call"}
        IN IF rt.max_retries < 1
           THEN /\ rt.pc = "done"
                /\ rt.out.kind = "raise" /\ rt.out.exc.type = "ValueError"
                /\ rt.log = <<>>
           ELSE /\ Cardinality(attempts) <= rt.max_retries
                /\ \A i \in attempts :
                      rt.log[i].r.kind = "return" =>
                          i = Len(rt.log) /\ rt.pc = "done" /\ rt.out = rt.log[i].r
                /\ (/\ Cardinality(attempts) = rt.max_retries
                    /\ \A i \in attempts : rt.log[i].r.kind = "raise") =>
                      rt.pc = "done" /\ rt.out = rt.log[Len(rt.log)].r
                /\ \A i \in DOMAIN rt.log :
                      rt.log[i].ev = "sleep" =>
                          /\ i > 1 /\ rt.log[i - 1].ev = "call"
                          /\ IF i < Len(rt.log) THEN rt.log[i + 1].ev = "call"
                             ELSE rt.pc = "loop"
                /\ (rt.pc = "done") => rt.out.kind # "none"

\* Two attempts with max_retries = 2, both failed: one sleep between them and
\* the second exception raised
C23_Witness ==
    /\ prog = "retry"
    /\ rt.max_retries = 2
    /\ rt.pc = "done"
    /\ rt.log = <<[ev |-> "call", r |-> Raised(ValueErr)],
                  [ev |-> "sleep", r |-> NoOutcome],
                  [ev |-> "call", r |-> Raised(StrErr)]>>
    /\ rt.out = Raised(StrErr)

\* C26: when every increment_counter task of race_condition_example has
\* finished, the counter (the value returned) is less than the number of
\* increments made, tasks times iterations (5000 in the source): updates were
\* lost.  The counter never exceeds that number.
C26_UpdatesLost ==
    (prog = "race") =>
        /\ rc.counter <= Incrementers * Increments
        /\ (\A t \in 1..Incrementers : rc.tasks[t].pc = "done") =>
              rc.counter < Incrementers * Increments

\* All tasks finished; each iteration of all of them counted once
C26_Witness ==
    /\ prog = "race"
    /\ \A t \in 1..Incrementers : rc.tasks[t].pc = "done"
    /\ rc.counter = Increments

C28_ComponentsPartitionListedNodes ==
    (gr.op = "sccs") =>
        LET listed == {gr.nodes[i] : i \in 1..Len(gr.nodes)}
            reach == Paths({<<gr.edges[k].source, gr.edges[k].target>> :
                              k \in 1..Len(gr.edges)})
        IN /\ \A a \in listed : Cardinality(Places(gr.out, a)) = 1
           /\ \A c \in 1..Len(gr.out) : \A k \in 1..Len(gr.out[c]) :
                 gr.out[c][k] \in listed
           /\ \A a \in listed, b \in listed :
                 (\E p \in Places(gr.out, a), q \in Places(gr.out, b) : p[1] = q[1])
                   <=> (a = b \/ (<<a, b>> \in reach /\ <<b, a>> \in reach))

====
